---- MODULE Spec2Model ----
(***************************************************************************)
(* Reconciliation engine of the OpenNebula Terraform provider:             *)
(*   - the update handlers of Image, VirtualNetwork, SecurityGroup and VM  *)
(*     (specification Spec),                                               *)
(*   - the wait-for-state pollers of Image and VM (specification PollSpec),*)
(*   - the create handlers of VirtualNetwork and SecurityGroup, the read   *)
(*     and delete handlers of the four kinds and the reads of the User and *)
(*     Group data sources (specification LifeSpec),                        *)
(*   - the create handlers of Image and VM (specification CreateSpec),     *)
(*   - the lookup by name in a pool, the validator of the permissions      *)
(*     attribute, the permission codec, the template builders and the      *)
(*     customize-diff step of the VM, applied to bounded inputs            *)
(*     (specification FnSpec),                                             *)
(*   - two processes that create, read, delete and ask for the existence   *)
(*     of their resources against one remote (specification WorldSpec).    *)
(*                                                                         *)
(* Field values are the abstract tokens of Values; 0 is the Go zero value  *)
(* of the field ("" for a string, 0 for an int, the empty list), 1 and 2   *)
(* are two different non-zero values.  The code only compares values for   *)
(* equality and for emptiness.                                             *)
(***************************************************************************)
EXTENDS Integers, Sequences, FiniteSets, TLC

\* ------------------------------------------------------------------ bounds
MaxEdits == 3
MaxRuns == 2
MaxRefresh == 3
MaxImageState == 5
MaxVmState == 6
MaxHold == 3
MaxPool == 3
MaxPerm == 4

\* ------------------------------------------------------- program constants
ModeReplace == 0
ModeMerge == 1
ImageStateReady == 1
ImageStateError == 5
VmStateActive == 3
VmStateDone == 6
LcmRunning == 3
LcmBootFailure == 36
OctetMod == 256

VARIABLES
  kind,         \* resource kind the handler belongs to
  stored,       \* Terraform state of the resource (field -> value)
  desired,      \* configuration (field -> value)
  remote,       \* attributes of the remote resource (field -> value)
  old,          \* the state the running handler's ResourceData was built from
  pc,           \* "plan" | "running" | "returned"
  step,         \* index of the next block of the running update handler
  calls,        \* remote calls issued by the current handler run, in order
  prevCalls,    \* remote calls issued by the previous run of the handler
  prevResult,   \* result of the previous run of the handler
  partialMode,  \* d.Partial(true) is in force
  partial,      \* keys passed to d.SetPartial in this run
  result,       \* "none" | "ok" | "err": what the handler returned
  edits,        \* number of configuration fields edited
  runs,         \* number of handler invocations
  pkind,        \* poller: "image" | "vm"
  ptarget,      \* poller: the state waited for
  pstate,       \* poller: "idle" | "polling" | "done"
  outcome,      \* poller: "none" | "success" | "error" | "timeout" | "unexpected"
  nrefresh,     \* poller: number of Refresh calls made
  hist,         \* poller: the snapshots the Refresh calls observed, in order
  seen,         \* poller: what the Refresh calls returned, in order
  returned,     \* poller: the snapshot WaitForState returned ("nil" if none)
  errmsg,       \* poller: the error WaitForState returned (<<>> if none)
  lkind,        \* lifecycle: resource kind of the handler
  cfg,          \* lifecycle: the attributes d.Get reads (configuration/state)
  lop,          \* lifecycle: "none" | "create" | "read" | "delete"
  lpc,          \* lifecycle: position of the running handler ("idle" if none)
  lid,          \* lifecycle: d.Id(); 0 is the empty string
  lcalls,       \* lifecycle: remote calls issued by the current handler run
  lresult,      \* lifecycle: "none" | "ok" | "err" | "panic"
  lip,          \* lifecycle: the ip variable of the lease walk (<<>> is nil)
  li,           \* lifecycle: the loop counter of the lease walk
  lsets,        \* lifecycle: the attributes the run has written with d.Set
  fn,           \* function under test: "none" | "resolve" | "validate"
  farg,         \* its argument
  fres          \* <<its result>>, <<>> before it is applied

updVars == <<kind, stored, desired, remote, old, pc, step, calls, prevCalls,
             prevResult, partialMode, partial, result, edits, runs>>
pollVars == <<pkind, ptarget, pstate, outcome, nrefresh, hist, seen, returned,
              errmsg>>
lifeVars == <<lkind, cfg, lop, lpc, lid, lcalls, lresult, lip, li, lsets>>
fnVars == <<fn, farg, fres>>

\* Two reconciliations against one remote: the kind of their resources, the
\* remote's resources, the remote as each process alone would have left it,
\* the processes, and each process as it runs alone.
VARIABLES wkind, world, alone, procs, solo
wVars == <<wkind, world, alone, procs, solo>>
vars == <<updVars, pollVars, lifeVars, fnVars, wVars>>

\* ========================================================== update handlers

\* The keys of ResourcesMap of Provider(), without the "opennebula_" prefix.
ResourcesMap == {"template", "vnet", "vm", "image", "secgroup"}

\* resourceTemplate() is in no source file, and the specification names no
\* template resource: what its handlers do is not known (TemplateHandler).
OpaqueKinds == {"template"}

\* The resource kinds whose handlers are in the sources.
Kinds == ResourcesMap \ OpaqueKinds

\* The schema fields an update can see changed (not ForceNew) and that the
\* handlers read.
Fields(k) ==
  CASE k = "image"    -> {"description", "name", "permissions"}
    [] k = "vnet"     -> {"description", "dns", "gateway", "networkmask",
                          "security_groups", "name", "ip_start", "ip_size",
                          "uid", "gid", "permissions"}
    [] k = "secgroup" -> {"description", "permissions", "rule", "commit"}
    [] k = "vm"       -> {"permissions"}

Values == {0, 1, 2}

\* Values the schema admits for a field: permissions pass ValidateFunc (never
\* empty), name and rule are Required, commit is a bool.
FieldValues(k, f) ==
  CASE f \in {"permissions", "name", "rule"} -> Values \ {0}
    [] f = "commit" -> {0, 1}
    [] OTHER -> Values

\* d.HasChange(key)
HasChange(o, n, f) == o[f] # n[f]

\* changePermissions(id, permission(p), client, method): one chmod call.
changePermissions(method) ==
  [method |-> method, mode |-> -1, sends |-> {"permissions"},
   effects |-> {"permissions"}]

\* ----- resourceImageUpdate
ImageDescriptionStep(o, n) ==
  [name |-> "description", guard |-> HasChange(o, n, "description"),
   method |-> "one.image.update", mode |-> ModeReplace,
   sends |-> {"description"}, effects |-> {"description"}, marks |-> {}]

ImageRenameStep(o, n) ==
  [name |-> "name", guard |-> HasChange(o, n, "name"),
   method |-> "one.image.rename", mode |-> -1,
   sends |-> {"name"}, effects |-> {"name"}, marks |-> {}]

ImageChmodStep(o, n) ==
  LET c == changePermissions("one.image.chmod") IN
  [name |-> "permissions", guard |-> HasChange(o, n, "permissions"),
   method |-> c.method, mode |-> c.mode,
   sends |-> c.sends, effects |-> c.effects, marks |-> {}]

ImageStepRenameFirst(i, o, n) ==
  CASE i = 1 -> ImageRenameStep(o, n)
    [] i = 2 -> ImageDescriptionStep(o, n)
    [] i = 3 -> ImageChmodStep(o, n)

ImageStep(i, o, n) ==
  CASE i = 1 -> ImageDescriptionStep(o, n)
    [] i = 2 -> ImageRenameStep(o, n)
    [] i = 3 -> ImageChmodStep(o, n)

\* ----- resourceVnetUpdate
VnetDescriptionStepReplace(o, n) ==
  [name |-> "description", guard |-> HasChange(o, n, "description"),
   method |-> "one.vn.update", mode |-> ModeReplace,
   sends |-> {"description"}, effects |-> {"description"}, marks |-> {}]

VnetDescriptionStep(o, n) ==
  [name |-> "description", guard |-> HasChange(o, n, "description"),
   method |-> "one.vn.update", mode |-> ModeMerge,
   sends |-> {"description"}, effects |-> {"description"}, marks |-> {}]

VnetDnsStep(o, n) ==
  [name |-> "dns", guard |-> HasChange(o, n, "dns"),
   method |-> "one.vn.update", mode |-> ModeMerge,
   sends |-> {"dns"}, effects |-> {"dns"}, marks |-> {"dns"}]

VnetGatewayStep(o, n) ==
  [name |-> "gateway", guard |-> HasChange(o, n, "gateway"),
   method |-> "one.vn.update", mode |-> ModeMerge,
   sends |-> {"gateway"}, effects |-> {"gateway"}, marks |-> {"gateway"}]

VnetNetworkmaskStep(o, n) ==
  [name |-> "networkmask", guard |-> HasChange(o, n, "networkmask"),
   method |-> "one.vn.update", mode |-> ModeMerge,
   sends |-> {"networkmask"}, effects |-> {"networkmask"},
   marks |-> {"networkmask"}]

\* setVnetSecurityGroups: one.vn.update with SECURITY_GROUPS="...", mode 1
setVnetSecurityGroups ==
  [method |-> "one.vn.update", mode |-> ModeMerge,
   sends |-> {"security_groups"}, effects |-> {"security_groups"}]

\* (strconv.Atoi(d.Id()) cannot fail here: the ID is the decimal the remote
\* system returned, so the "return nil" of that branch is not reachable.)
VnetSecurityGroupsStep(o, n) ==
  LET c == setVnetSecurityGroups IN
  [name |-> "security_groups", guard |-> HasChange(o, n, "security_groups"),
   method |-> c.method, mode |-> c.mode,
   sends |-> c.sends, effects |-> c.effects, marks |-> {}]

VnetRenameStepUnguarded(o, n) ==
  [name |-> "name", guard |-> TRUE,
   method |-> "one.vn.rename", mode |-> -1,
   sends |-> {"name"}, effects |-> {"name"}, marks |-> {}]

VnetRenameStep(o, n) ==
  [name |-> "name", guard |-> HasChange(o, n, "name"),
   method |-> "one.vn.rename", mode |-> -1,
   sends |-> {"name"}, effects |-> {"name"}, marks |-> {}]

\* vn_ar_cmd: the method name chosen for the address-range call; it stays the
\* empty string when ip_start changed from a non-empty value.
VnArCmd(o, n) ==
  IF HasChange(o, n, "ip_start")
  THEN (IF o["ip_start"] = 0 THEN "one.vn.add_ar" ELSE "")
  ELSE "one.vn.update_ar"

\* The address-range block always carries IP = ip_start and SIZE = ip_size; a
\* call with the empty method name reaches no remote operation.
VnetArStep(o, n) ==
  LET cmd == VnArCmd(o, n) IN
  [name |-> "ar", guard |-> HasChange(o, n, "ip_size"),
   method |-> cmd, mode |-> -1,
   sends |-> {"ip_start", "ip_size"},
   effects |-> IF cmd = "" THEN {} ELSE {"ip_start", "ip_size"},
   marks |-> {"ip_start", "ip_size"}]

\* d.Get("uid") != "" compares an int with a string: always true.
VnetChownStep(o, n) ==
  LET changed == {f \in {"uid", "gid"} : HasChange(o, n, f)} IN
  [name |-> "chown", guard |-> changed # {},
   method |-> "one.vn.chown", mode |-> -1,
   sends |-> changed, effects |-> changed, marks |-> {"uid", "gid"}]

VnetChmodStep(o, n) ==
  LET c == changePermissions("one.vn.chmod") IN
  [name |-> "permissions",
   guard |-> HasChange(o, n, "permissions") /\ n["permissions"] # 0,
   method |-> c.method, mode |-> c.mode,
   sends |-> c.sends, effects |-> c.effects, marks |-> {}]

VnetStepChmodBeforeChown(i, o, n) ==
  CASE i = 1 -> VnetDescriptionStep(o, n)
    [] i = 2 -> VnetDnsStep(o, n)
    [] i = 3 -> VnetGatewayStep(o, n)
    [] i = 4 -> VnetNetworkmaskStep(o, n)
    [] i = 5 -> VnetSecurityGroupsStep(o, n)
    [] i = 6 -> VnetRenameStep(o, n)
    [] i = 7 -> VnetArStep(o, n)
    [] i = 8 -> VnetChmodStep(o, n)
    [] i = 9 -> VnetChownStep(o, n)

VnetStep(i, o, n) ==
  CASE i = 1 -> VnetDescriptionStep(o, n)
    [] i = 2 -> VnetDnsStep(o, n)
    [] i = 3 -> VnetGatewayStep(o, n)
    [] i = 4 -> VnetNetworkmaskStep(o, n)
    [] i = 5 -> VnetSecurityGroupsStep(o, n)
    [] i = 6 -> VnetRenameStep(o, n)
    [] i = 7 -> VnetArStep(o, n)
    [] i = 8 -> VnetChownStep(o, n)
    [] i = 9 -> VnetChmodStep(o, n)

\* ----- resourceSecurityGroupUpdate
SecurityGroupChmodStep(o, n) ==
  LET c == changePermissions("one.secgroup.chmod") IN
  [name |-> "permissions",
   guard |-> HasChange(o, n, "permissions") /\ n["permissions"] # 0,
   method |-> c.method, mode |-> c.mode,
   sends |-> c.sends, effects |-> c.effects, marks |-> {"permissions"}]

\* generateSecurityGroupXML puts name, description and the rules in the
\* template; d.Get("rule") != "" compares a set with a string: always true.
SecurityGroupRuleStep(o, n) ==
  [name |-> "rule", guard |-> HasChange(o, n, "rule"),
   method |-> "one.secgroup.update", mode |-> ModeReplace,
   sends |-> {"description", "rule"}, effects |-> {"description", "rule"},
   marks |-> {}]

\* Nested in the rule block: reached only after the rule update succeeded.
\* "if d.Get("commit") == true"
SecurityGroupCommitStepAlways(o, n) ==
  [name |-> "commit",
   guard |-> HasChange(o, n, "rule"),
   method |-> "one.secgroup.commit", mode |-> -1,
   sends |-> {}, effects |-> {}, marks |-> {}]

SecurityGroupCommitStep(o, n) ==
  [name |-> "commit",
   guard |-> HasChange(o, n, "rule") /\ n["commit"] = 1,
   method |-> "one.secgroup.commit", mode |-> -1,
   sends |-> {}, effects |-> {}, marks |-> {}]

SecurityGroupStep(i, o, n) ==
  CASE i = 1 -> SecurityGroupChmodStep(o, n)
    [] i = 2 -> SecurityGroupRuleStep(o, n)
    [] i = 3 -> SecurityGroupCommitStep(o, n)

\* ----- resourceVmUpdate
VmChmodStep(o, n) ==
  LET c == changePermissions("one.vm.chmod") IN
  [name |-> "permissions",
   guard |-> HasChange(o, n, "permissions") /\ n["permissions"] # 0,
   method |-> c.method, mode |-> c.mode,
   sends |-> c.sends, effects |-> c.effects, marks |-> {"permissions"}]

VmStep(i, o, n) == VmChmodStep(o, n)

\* ----- the handlers as block sequences
NSteps(k) ==
  CASE k = "image" -> 3 [] k = "vnet" -> 9 [] k = "secgroup" -> 3 [] k = "vm" -> 1

UpdateStep(k, i, o, n) ==
  CASE k = "image"    -> ImageStep(i, o, n)
    [] k = "vnet"     -> VnetStep(i, o, n)
    [] k = "secgroup" -> SecurityGroupStep(i, o, n)
    [] k = "vm"       -> VmStep(i, o, n)

\* d.Partial(true) at handler entry (the Image handler never sets it).
PartialAtEntry(k) == k \in {"vnet", "secgroup", "vm"}

\* "if err != nil { return err }": the block index after a call; 0 = return.
AfterCallIgnoreErr(ok, i) == i + 1

AfterCall(ok, i) == IF ok THEN i + 1 ELSE 0

\* The state saved when the handler returns: in partial mode only the keys
\* given to SetPartial take their new value, otherwise every key does.
Persist(s, n, pmode, marks) ==
  [f \in DOMAIN s |-> IF (~pmode) \/ f \in marks THEN n[f] ELSE s[f]]

Call(s, ok) ==
  [step |-> s.name, method |-> s.method, mode |-> s.mode, sends |-> s.sends,
   effects |-> s.effects, ok |-> ok]

CurStep == UpdateStep(kind, step, old, desired)

\* The handler runs through the blocks whose condition is false without any
\* effect: the first block at or after i whose condition holds, or the end.
NextBlock(k, i, o, n) ==
  LET S == {j \in i..NSteps(k) : UpdateStep(k, j, o, n).guard} IN
  IF S = {} THEN NSteps(k) + 1 ELSE CHOOSE j \in S : \A m \in S : j <= m

\* The resource starts converged: state, configuration and remote agree.
InitStored(k) ==
  {s \in [Fields(k) -> 0..1] :
     \A f \in Fields(k) : f # "ip_start" => s[f] = 1}

\* ---------------------------------------------- attributes of the lifecycle
\* The attributes the create, read and delete handlers read with d.Get and
\* d.GetOk.  0 is the zero value of an int attribute and the unset state of
\* a string or list attribute; ip_start is the dotted-decimal string as the
\* sequence of its fields (<<>> is the empty string).
NoIp == <<>>

NoConfig ==
  [name |-> 1, description |-> 0, permissions |-> 0, bridge |-> 0,
   vn_mad |-> "", phydev |-> 0, vlan_id |-> 0,
   networkmask |-> 0, gateway |-> 0, dns |-> 0,
   ip_start |-> NoIp, ip_size |-> 0, hold_size |-> 0,
   reservation_vnet |-> 0, reservation_size |-> 0, security_groups |-> 0,
   clone_from_image |-> <<>>, template_id |-> 0]

IpStarts == {NoIp, <<10, 0, 0, 256>>, <<10, 0, 0, 5>>, <<10, 0, 255, 254>>}

\* Attributes that only add a line to the template of one.vn.allocate.
TemplateOnly == {"description", "bridge", "networkmask", "gateway", "dns"}

\* Fresh allocation: reservation_vnet is unset.  ConflictsWith of the schema
\* keeps reservation_size unset when bridge, ip_start, ip_size, hold_size or a
\* CONTEXT attribute is set, and bridge unset when phydev or vlan_id is set.
\* Two families of configurations: those that vary what goes into the
\* template (at most one of the template-only attributes set), and those that
\* vary the blocks after the allocation.
VnetTemplateConfigs ==
  {c \in [name : {1}, description : {0, 1}, permissions : {0},
          bridge : {0, 1}, vn_mad : {"", "fw", "802.1q"},
          phydev : {0, 1}, vlan_id : {0, 1},
          networkmask : {0, 1}, gateway : {0, 1}, dns : {0, 1},
          ip_start : {NoIp}, ip_size : {0}, hold_size : {0},
          reservation_vnet : {0}, reservation_size : {0},
          security_groups : {0},
          clone_from_image : {<<>>}, template_id : {0}] :
     /\ \A f, g \in TemplateOnly : (c[f] = 1 /\ c[g] = 1) => f = g
     /\ (c.phydev = 1 \/ c.vlan_id = 1) => c.bridge = 0}

VnetLeaseConfigs ==
  {c \in [name : {1}, description : {0}, permissions : {0, 1},
          bridge : {0}, vn_mad : {""}, phydev : {0}, vlan_id : {0},
          networkmask : {0}, gateway : {0}, dns : {0},
          ip_start : IpStarts, ip_size : {0, 2}, hold_size : 0..MaxHold,
          reservation_vnet : {0}, reservation_size : {0, 1},
          security_groups : {0, 1},
          clone_from_image : {<<>>}, template_id : {0}] :
     c.reservation_size # 0 =>
       (c.ip_start = NoIp /\ c.ip_size = 0 /\ c.hold_size = 0)}

VnetFreshConfigs == VnetTemplateConfigs \cup VnetLeaseConfigs

\* Reservation from a parent network: reservation_vnet is set (any int but 0).
\* SourceId is the ID of the parent network, which is not the ID the remote
\* system gives the reservation.
SourceId == 2

VnetReservationConfigs ==
  [name : {1}, description : {0, 1}, permissions : {0, 1},
   bridge : {0}, vn_mad : {"", "802.1q"}, phydev : {0}, vlan_id : {0},
   networkmask : {0}, gateway : {0}, dns : {0},
   ip_start : {NoIp}, ip_size : {0}, hold_size : {0},
   reservation_vnet : {-1, SourceId}, reservation_size : -1..MaxHold,
   security_groups : {0, 1},
   clone_from_image : {<<>>}, template_id : {0}]

VnetConfigs == VnetFreshConfigs \cup VnetReservationConfigs

\* clone_from_image of an Image, as the sequence of its characters: unset, an
\* integer (with and without a sign), a name, and a name that begins with a
\* digit.
CloneRefs ==
  {<<>>, <<"7">>, <<"1", "2">>, <<"-", "3">>, <<"a">>, <<"7", "a">>}

ImageConfigs ==
  {[NoConfig EXCEPT !.permissions = p, !.clone_from_image = r] :
     p \in {0, 1}, r \in CloneRefs}

\* A VM is instantiated from template_id when it is set, allocated otherwise.
VmConfigs ==
  {[NoConfig EXCEPT !.permissions = p, !.template_id = t] :
     p \in {0, 1}, t \in {0, 1}}

SecurityGroupConfigs ==
  {[NoConfig EXCEPT !.permissions = p] : p \in {0, 1}}

\* The data sources of Image, VirtualNetwork and SecurityGroup are
\* registered with the Read of the resource: "Read: resourceImageRead".
DataKinds == {"data_image", "data_vnet", "data_secgroup"}

\* The resource whose Read a kind runs.
ReadKind(k) ==
  CASE k = "data_image" -> "image" [] k = "data_vnet" -> "vnet"
    [] k = "data_secgroup" -> "secgroup" [] OTHER -> k

\* The keys of DataSourcesMap of Provider(): the data sources of User and
\* Group have the name only.
DataSourcesMap == DataKinds \cup {"user", "group"}

\* The kinds whose handlers are followed step by step.
LifeKinds == Kinds \cup DataSourcesMap

Configs(k) ==
  CASE k = "vnet" -> VnetConfigs
    [] k = "image" -> ImageConfigs
    [] k = "vm" -> VmConfigs
    [] k = "secgroup" -> SecurityGroupConfigs
    [] OTHER -> {NoConfig}

\* No handler of the lifecycle has run.  A VirtualNetwork, a SecurityGroup
\* or a data source is still to be created or read and has no ID; an Image
\* or a VM is in the state with the ID 1 (their creation is followed from
\* CreateInit).
NewKinds == {"image", "vm"}

LifeStart(k) ==
  /\ lkind = k
  /\ cfg \in (IF k \in NewKinds THEN {NoConfig} ELSE Configs(k))
  /\ lop = "none" /\ lpc = "idle"
  /\ lid = (IF k \in NewKinds THEN 1 ELSE 0)
  /\ lcalls = <<>> /\ lresult = "none"
  /\ lip = NoIp /\ li = 0 /\ lsets = {}

\* An Image or a VM is still to be created.
CreateStartState(k) ==
  /\ lkind = k
  /\ cfg \in Configs(k)
  /\ lop = "none" /\ lpc = "idle"
  /\ lid = 0
  /\ lcalls = <<>> /\ lresult = "none"
  /\ lip = NoIp /\ li = 0 /\ lsets = {}

LifeIdle ==
  /\ lkind = "vm" /\ cfg = NoConfig
  /\ lop = "none" /\ lpc = "idle" /\ lid = 1
  /\ lcalls = <<>> /\ lresult = "none"
  /\ lip = NoIp /\ li = 0 /\ lsets = {}

FnIdle == fn = "none" /\ farg = <<>> /\ fres = <<>>

WorldIdle ==
  /\ wkind = "image" /\ world = <<>> /\ alone = <<>>
  /\ procs = <<>> /\ solo = <<>>

PollIdle ==
  /\ pkind = "image" /\ ptarget = "ready" /\ pstate = "idle"
  /\ outcome = "none" /\ nrefresh = 0 /\ hist = <<>> /\ seen = <<>>
  /\ returned = "nil" /\ errmsg = <<>>

Init ==
  /\ kind \in Kinds
  /\ stored \in InitStored(kind)
  /\ desired = stored /\ remote = stored /\ old = stored
  /\ pc = "plan" /\ step = 0
  /\ calls = <<>> /\ prevCalls = <<>> /\ prevResult = "none"
  /\ partialMode = FALSE /\ partial = {}
  /\ result = "none" /\ edits = 0 /\ runs = 0
  /\ PollIdle
  /\ LifeIdle
  /\ FnIdle
  /\ WorldIdle

\* The operator changes one field of the configuration.
Edit ==
  /\ pc = "plan" /\ edits < MaxEdits
  /\ \E f \in Fields(kind) : \E v \in FieldValues(kind, f) :
       /\ desired[f] = stored[f]
       /\ v # desired[f]
       /\ desired' = [desired EXCEPT ![f] = v]
  /\ edits' = edits + 1
  /\ UNCHANGED <<kind, stored, remote, old, pc, step, calls, prevCalls,
                 prevResult, partialMode, partial, result, runs>>
  /\ UNCHANGED pollVars
  /\ UNCHANGED lifeVars
  /\ UNCHANGED <<fnVars, wVars>>

\* Terraform invokes the Update handler (first apply, or a retry of it); the
\* handler stands at its first block whose condition holds.
UpdateStart ==
  /\ pc \in {"plan", "returned"} /\ runs < MaxRuns
  /\ pc' = "running"
  /\ step' = NextBlock(kind, 1, stored, desired)
  /\ old' = stored
  /\ prevCalls' = calls /\ prevResult' = result
  /\ calls' = <<>> /\ partial' = {}
  /\ partialMode' = PartialAtEntry(kind)
  /\ result' = "none"
  /\ runs' = runs + 1
  /\ UNCHANGED <<kind, stored, desired, remote, edits>>
  /\ UNCHANGED pollVars
  /\ UNCHANGED lifeVars
  /\ UNCHANGED <<fnVars, wVars>>

\* A block's remote call succeeds: the remote takes the values sent, the
\* block's SetPartial keys are recorded, the handler goes on.
StepCallOk ==
  /\ pc = "running" /\ step \in 1..NSteps(kind)
  /\ CurStep.guard
  /\ calls' = Append(calls, Call(CurStep, TRUE))
  /\ remote' = [f \in DOMAIN remote |->
                  IF f \in CurStep.effects THEN desired[f] ELSE remote[f]]
  /\ partial' = partial \cup CurStep.marks
  /\ step' = NextBlock(kind, AfterCall(TRUE, step), old, desired)
  /\ UNCHANGED <<kind, stored, desired, old, pc, prevCalls, prevResult,
                 partialMode, result, edits, runs>>
  /\ UNCHANGED pollVars
  /\ UNCHANGED lifeVars
  /\ UNCHANGED <<fnVars, wVars>>

\* A block's remote call fails: the handler returns the error and Terraform
\* saves the state the ResourceData then holds.
StepCallFail ==
  /\ pc = "running" /\ step \in 1..NSteps(kind)
  /\ CurStep.guard
  /\ calls' = Append(calls, Call(CurStep, FALSE))
  /\ LET nxt == AfterCall(FALSE, step) IN
       IF nxt = 0
       THEN /\ pc' = "returned" /\ result' = "err" /\ step' = 0
            /\ stored' = Persist(stored, desired, partialMode, partial)
       ELSE /\ step' = NextBlock(kind, nxt, old, desired)
            /\ UNCHANGED <<pc, result, stored>>
  /\ UNCHANGED <<kind, desired, remote, old, prevCalls, prevResult,
                 partialMode, partial, edits, runs>>
  /\ UNCHANGED pollVars
  /\ UNCHANGED lifeVars
  /\ UNCHANGED <<fnVars, wVars>>

\* The end of the handler: d.Partial(false); return nil.
UpdateReturn ==
  /\ pc = "running" /\ step = NSteps(kind) + 1
  /\ partialMode' = FALSE
  /\ pc' = "returned" /\ result' = "ok" /\ step' = 0
  /\ stored' = Persist(stored, desired, FALSE, partial)
  /\ UNCHANGED <<kind, desired, remote, old, calls, prevCalls, prevResult,
                 partial, edits, runs>>
  /\ UNCHANGED pollVars
  /\ UNCHANGED lifeVars
  /\ UNCHANGED <<fnVars, wVars>>

Next ==
  \/ Edit
  \/ UpdateStart
  \/ StepCallOk
  \/ StepCallFail
  \/ UpdateReturn

Spec == Init /\ [][Next]_vars

\* ================================================================ pollers

\* What one info call can observe: the call fails (found = FALSE) or returns
\* a response; xml tells whether the response unmarshals, state and lcm are
\* the lifecycle codes, utpl is the USER_TEMPLATE map of a VM.
NoTemplate == [key \in {} |-> ""]
UserTemplates ==
  {NoTemplate} \cup {[key \in {"ERROR"} |-> v] : v \in {"", "boom"}}

\* m[key] of a Go map[string]string: the zero value "" for a missing key.
MapGet(m, key) == IF key \in DOMAIN m THEN m[key] ELSE ""

NoSnap ==
  [found |-> FALSE, xml |-> FALSE, state |-> 0, lcm |-> 0, utpl |-> NoTemplate]
BadSnap ==
  [found |-> TRUE, xml |-> FALSE, state |-> 0, lcm |-> 0, utpl |-> NoTemplate]

ImageStates == 0..MaxImageState
VmStates == 0..MaxVmState
LcmStates == {0, LcmRunning, LcmBootFailure}

ImageSnaps ==
  {NoSnap, BadSnap} \cup
  {[found |-> TRUE, xml |-> TRUE, state |-> s, lcm |-> 0, utpl |-> NoTemplate] :
     s \in ImageStates}

\* Every STATE with LCM_STATE 0, and every LCM_STATE with the two values of
\* STATE that the Refresh closure compares with and one other value.
VmSnaps ==
  {NoSnap, BadSnap} \cup
  {[found |-> TRUE, xml |-> TRUE, state |-> s, lcm |-> 0, utpl |-> NoTemplate] :
     s \in VmStates} \cup
  {[found |-> TRUE, xml |-> TRUE, state |-> s, lcm |-> l, utpl |-> NoTemplate] :
     s \in {0, VmStateActive, VmStateDone}, l \in LcmStates} \cup
  {[found |-> TRUE, xml |-> TRUE, state |-> VmStateActive,
    lcm |-> LcmBootFailure, utpl |-> u] : u \in UserTemplates}

Snaps(k) == IF k = "image" THEN ImageSnaps ELSE VmSnaps

\* What a Refresh closure returns: the result (nil or not), the state string
\* and the error; msg is the error's format string followed by its errMsg
\* argument (the resource ID argument is left out).
RefreshResult(isnil, snap, class, iserr, msg) ==
  [nil |-> isnil, val |-> snap, class |-> class, err |-> iserr, msg |-> msg]

\* The Refresh closure of waitForImageState (d.Id() is set on every path that
\* polls): a failed info call yields an empty Image and "notfound", no error.
ImageRefreshGeq(snap) ==
  IF ~snap.found
  THEN RefreshResult(FALSE, NoSnap, "notfound", FALSE, <<>>)
  ELSE IF ~snap.xml
  THEN RefreshResult(TRUE, NoSnap, "", TRUE, <<"Couldn't fetch Image state: %s">>)
  ELSE IF snap.state >= ImageStateReady /\ snap.state # ImageStateError
  THEN RefreshResult(FALSE, snap, "ready", FALSE, <<>>)
  ELSE IF snap.state = ImageStateError
  THEN RefreshResult(FALSE, snap, "error", TRUE,
                     <<"Image ID %v entered error state.">>)
  ELSE RefreshResult(FALSE, snap, "anythingelse", FALSE, <<>>)

ImageRefreshErrorPending(snap) ==
  IF ~snap.found
  THEN RefreshResult(FALSE, NoSnap, "notfound", FALSE, <<>>)
  ELSE IF ~snap.xml
  THEN RefreshResult(TRUE, NoSnap, "", TRUE, <<"Couldn't fetch Image state: %s">>)
  ELSE IF snap.state = ImageStateReady
  THEN RefreshResult(FALSE, snap, "ready", FALSE, <<>>)
  ELSE RefreshResult(FALSE, snap, "anythingelse", FALSE, <<>>)

ImageRefresh(snap) ==
  IF ~snap.found
  THEN RefreshResult(FALSE, NoSnap, "notfound", FALSE, <<>>)
  ELSE IF ~snap.xml
  THEN RefreshResult(TRUE, NoSnap, "", TRUE, <<"Couldn't fetch Image state: %s">>)
  ELSE IF snap.state = ImageStateReady
  THEN RefreshResult(FALSE, snap, "ready", FALSE, <<>>)
  ELSE IF snap.state = ImageStateError
  THEN RefreshResult(FALSE, snap, "error", TRUE,
                     <<"Image ID %v entered error state.">>)
  ELSE RefreshResult(FALSE, snap, "anythingelse", FALSE, <<>>)

\* errMsg of the boot_failure branch: the ERROR entry of the user template
\* unless it is the empty string (missing key or empty value).
VmErrMsgGeneric(utpl) == "No error was found"

VmErrMsg(utpl) ==
  IF MapGet(utpl, "ERROR") # "" THEN MapGet(utpl, "ERROR")
  ELSE "No error was found"

\* The Refresh closure of waitForVmState: a failed info call is an error.
VmRefreshDoneNeedsLcm(snap) ==
  IF ~snap.found
  THEN RefreshResult(TRUE, NoSnap, "", TRUE, <<"Could not find VM by ID %s">>)
  ELSE IF ~snap.xml
  THEN RefreshResult(TRUE, NoSnap, "", TRUE, <<"Couldn't fetch VM state: %s">>)
  ELSE IF snap.state = VmStateActive /\ snap.lcm = LcmRunning
  THEN RefreshResult(FALSE, snap, "running", FALSE, <<>>)
  ELSE IF snap.state = VmStateDone /\ snap.lcm = 0
  THEN RefreshResult(FALSE, snap, "done", FALSE, <<>>)
  ELSE IF snap.state = VmStateActive /\ snap.lcm = LcmBootFailure
  THEN RefreshResult(FALSE, snap, "boot_failure", TRUE,
         <<"VM ID %s entered fail state, error message: %s",
           VmErrMsg(snap.utpl)>>)
  ELSE RefreshResult(FALSE, snap, "anythingelse", FALSE, <<>>)

VmRefreshRetryOnFail(snap) ==
  IF ~snap.found
  THEN RefreshResult(FALSE, NoSnap, "anythingelse", FALSE, <<>>)
  ELSE IF ~snap.xml
  THEN RefreshResult(TRUE, NoSnap, "", TRUE, <<"Couldn't fetch VM state: %s">>)
  ELSE IF snap.state = VmStateActive /\ snap.lcm = LcmRunning
  THEN RefreshResult(FALSE, snap, "running", FALSE, <<>>)
  ELSE IF snap.state = VmStateDone
  THEN RefreshResult(FALSE, snap, "done", FALSE, <<>>)
  ELSE IF snap.state = VmStateActive /\ snap.lcm = LcmBootFailure
  THEN RefreshResult(FALSE, snap, "boot_failure", TRUE,
         <<"VM ID %s entered fail state, error message: %s",
           VmErrMsg(snap.utpl)>>)
  ELSE RefreshResult(FALSE, snap, "anythingelse", FALSE, <<>>)

VmRefresh(snap) ==
  IF ~snap.found
  THEN RefreshResult(TRUE, NoSnap, "", TRUE, <<"Could not find VM by ID %s">>)
  ELSE IF ~snap.xml
  THEN RefreshResult(TRUE, NoSnap, "", TRUE, <<"Couldn't fetch VM state: %s">>)
  ELSE IF snap.state = VmStateActive /\ snap.lcm = LcmRunning
  THEN RefreshResult(FALSE, snap, "running", FALSE, <<>>)
  ELSE IF snap.state = VmStateDone
  THEN RefreshResult(FALSE, snap, "done", FALSE, <<>>)
  ELSE IF snap.state = VmStateActive /\ snap.lcm = LcmBootFailure
  THEN RefreshResult(FALSE, snap, "boot_failure", TRUE,
         <<"VM ID %s entered fail state, error message: %s",
           VmErrMsg(snap.utpl)>>)
  ELSE RefreshResult(FALSE, snap, "anythingelse", FALSE, <<>>)

Refresh(k, snap) == IF k = "image" THEN ImageRefresh(snap) ELSE VmRefresh(snap)

\* StateChangeConf{Pending: []string{"anythingelse"}, Target: []string{state}}
Pending == {"anythingelse"}
Target(state) == {state}
Targets(k) == IF k = "image" THEN {"ready", "notfound"} ELSE {"running", "done"}

\* stateConf.WaitForState() on one Refresh result: an error ends the wait; a
\* state in Target ends it with success; a state in Pending polls again; any
\* other state ends it with an unexpected-state error.  (No closure here
\* returns a nil result without an error, so the not-found counter of
\* WaitForState never runs.)
WaitForStateStep(r, target, pending) ==
  IF r.err THEN "error"
  ELSE IF r.class \in target THEN "success"
  ELSE IF r.class \in pending THEN "continue"
  ELSE IF pending # {} THEN "unexpected"
  ELSE "continue"

UpdIdle ==
  /\ kind = "vm"
  /\ stored \in InitStored(kind)
  /\ desired = stored /\ remote = stored /\ old = stored
  /\ pc = "plan" /\ step = 0
  /\ calls = <<>> /\ prevCalls = <<>> /\ prevResult = "none"
  /\ partialMode = FALSE /\ partial = {}
  /\ result = "none" /\ edits = 0 /\ runs = 0

PollInit == UpdIdle /\ PollIdle /\ LifeIdle /\ FnIdle /\ WorldIdle

\* waitForImageState(d, meta, state) / waitForVmState(d, meta, state) is called.
PollStart ==
  /\ pstate = "idle"
  /\ \E k \in {"image", "vm"} : \E t \in Targets(k) :
       /\ pkind' = k
       /\ ptarget' = t
  /\ pstate' = "polling"
  /\ UNCHANGED <<outcome, nrefresh, hist, seen, returned, errmsg>>
  /\ UNCHANGED updVars
  /\ UNCHANGED lifeVars
  /\ UNCHANGED <<fnVars, wVars>>

\* One Refresh call and what WaitForState makes of its result.
PollRefresh ==
  /\ pstate = "polling" /\ nrefresh < MaxRefresh
  /\ \E snap \in Snaps(pkind) :
       LET r == Refresh(pkind, snap)
           v == WaitForStateStep(r, Target(ptarget), Pending)
       IN /\ nrefresh' = nrefresh + 1
          /\ hist' = Append(hist, snap)
          /\ seen' = Append(seen, r)
          /\ IF v = "continue"
             THEN UNCHANGED <<pstate, outcome, returned, errmsg>>
             ELSE /\ pstate' = "done"
                  /\ outcome' = v
                  /\ returned' = IF r.nil THEN "nil" ELSE "snapshot"
                  /\ errmsg' = IF v = "error" THEN r.msg
                               ELSE IF v = "unexpected"
                               THEN <<"unexpected state '%s', wanted target '%s'">>
                               ELSE <<>>
  /\ UNCHANGED <<pkind, ptarget>>
  /\ UNCHANGED updVars
  /\ UNCHANGED lifeVars
  /\ UNCHANGED <<fnVars, wVars>>

\* The Timeout of the StateChangeConf elapses: WaitForState returns nil and
\* a timeout error, and starts no further Refresh.
PollTimeout ==
  /\ pstate = "polling"
  /\ pstate' = "done"
  /\ outcome' = "timeout"
  /\ returned' = "nil"
  /\ errmsg' = <<"timeout while waiting for state to become '%s'">>
  /\ UNCHANGED <<pkind, ptarget, nrefresh, hist, seen>>
  /\ UNCHANGED updVars
  /\ UNCHANGED lifeVars
  /\ UNCHANGED <<fnVars, wVars>>

\* What WaitForState makes of the result of a Refresh that was in flight
\* when the Timeout elapsed and that arrives within the grace period: a state
\* in Target still ends the wait with success; any other result is kept as
\* the last error or last state of the timeout error.
WaitForStateGrace(r, target, pending) ==
  IF WaitForStateStep(r, target, pending) = "success" THEN "success"
  ELSE "timeout"

\* The Timeout of the StateChangeConf elapses while a Refresh is in flight,
\* and the Refresh returns within the grace period.
PollTimeoutInFlight ==
  /\ pstate = "polling" /\ nrefresh < MaxRefresh
  /\ \E snap \in Snaps(pkind) :
       LET r == Refresh(pkind, snap)
           v == WaitForStateStep(r, Target(ptarget), Pending)
           g == WaitForStateGrace(r, Target(ptarget), Pending)
       IN /\ nrefresh' = nrefresh + 1
          /\ hist' = Append(hist, snap)
          /\ seen' = Append(seen, r)
          /\ pstate' = "done"
          /\ outcome' = g
          /\ returned' = IF g = "success" /\ ~r.nil THEN "snapshot" ELSE "nil"
          /\ errmsg' = IF g = "success" THEN <<>>
                       ELSE <<"timeout while waiting for state to become '%s'">>
                              \o (IF v = "error" THEN r.msg
                                  ELSE IF v = "unexpected"
                                  THEN <<"unexpected state '%s', wanted target '%s'">>
                                  ELSE <<>>)
  /\ UNCHANGED <<pkind, ptarget>>
  /\ UNCHANGED updVars
  /\ UNCHANGED lifeVars
  /\ UNCHANGED <<fnVars, wVars>>

PollNext ==
  \/ PollStart
  \/ PollRefresh
  \/ PollTimeout
  \/ PollTimeoutInFlight

PollSpec == PollInit /\ [][PollNext]_vars

\* ============================================== create, read and delete

\* net.ParseIP(s).To4(): the four bytes of a dotted-decimal IPv4 address, nil
\* for any other string.
ParseIP(s) ==
  IF Len(s) = 4 /\ (\A i \in 1..4 : s[i] \in 0..(OctetMod - 1)) THEN s ELSE NoIp

\* ip[3]++ on a byte: the last octet wraps, the other octets are not touched.
IncLastOctetCarry(ip) ==
  IF ip[4] + 1 < OctetMod THEN [ip EXCEPT ![4] = ip[4] + 1]
  ELSE [ip EXCEPT ![4] = 0, ![3] = (ip[3] + 1) % OctetMod]

IncLastOctet(ip) == [ip EXCEPT ![4] = (ip[4] + 1) % OctetMod]

\* The IDs the remote system can answer with: 1 is the ID it gives the
\* resource at creation, 2 is another resource that carries the same name.
Ids == {1, 2}
NewId == 1
BadId == -1

\* A remote call: the method, the ID argument, the outcome ("ok", "fail",
\* "bad" for a response the caller cannot parse, "nomatch" for a pool without
\* the name), and the arguments that some methods carry.
LCall(method, id, res) ==
  [method |-> method, id |-> id, res |-> res,
   ip |-> NoIp, size |-> 0, tmpl |-> <<>>, got |-> 0]

InfoMethod(k) ==
  LET r == ReadKind(k) IN
  CASE r = "image" -> "one.image.info" [] r = "vnet" -> "one.vn.info"
    [] r = "secgroup" -> "one.secgroup.info" [] r = "vm" -> "one.vm.info"
    [] r = "user" -> "one.user.info" [] r = "group" -> "one.group.info"

PoolMethod(k) ==
  LET r == ReadKind(k) IN
  CASE r = "image" -> "one.imagepool.info" [] r = "vnet" -> "one.vnpool.info"
    [] r = "secgroup" -> "one.secgrouppool.info" [] r = "vm" -> "one.vmpool.info"
    [] r = "user" -> "one.userpool.info" [] r = "group" -> "one.grouppool.info"

\* The filter flag of the pool call: -3 for VMs, -2 for the other resources,
\* none (0 here) for users and groups.
PoolFilter(k) ==
  IF k = "vm" THEN -3 ELSE IF k \in {"user", "group"} THEN 0 ELSE -2

DeleteMethod(k) ==
  CASE k = "image" -> "one.image.delete" [] k = "vnet" -> "one.vn.delete"
    [] k = "secgroup" -> "one.secgroup.delete" [] k = "vm" -> "one.vm.action"

\* ----- lookup by name in a pool
\* A pool is the list of the resources the pool call answers with, each with
\* its ID and its name; a name is the sequence of its characters.
Names == {<<"a">>, <<"b">>}
PoolEntries == [id : Ids, name : Names]

PoolsUpTo(n) == UNION {[1..m -> PoolEntries] : m \in 0..n}

Pools == PoolsUpTo(MaxPool)

\* The pools of the lifecycle handlers.
LifePools == PoolsUpTo(2)

\* d.Get("name") of the resource the lifecycle handlers work on.
ResourceName == <<"a">>

NotFound == [found |-> FALSE, id |-> 0]

\* "for _, t := range pool { if t.Name == name { ...; found = true; break } }"
RECURSIVE LastMatch(_, _)
LastMatch(pool, name) ==
  IF pool = <<>> THEN NotFound
  ELSE IF pool[Len(pool)].name = name
  THEN [found |-> TRUE, id |-> pool[Len(pool)].id]
  ELSE LastMatch(SubSeq(pool, 1, Len(pool) - 1), name)

\* The loop without the test of the name: the first resource of the pool.
FirstEntry(pool, name) ==
  IF pool = <<>> THEN NotFound ELSE [found |-> TRUE, id |-> Head(pool).id]

RECURSIVE FirstMatch(_, _)
FirstMatch(pool, name) ==
  IF pool = <<>> THEN NotFound
  ELSE IF Head(pool).name = name
  THEN [found |-> TRUE, id |-> Head(pool).id]
  ELSE FirstMatch(Tail(pool), name)

\* ----- strconv.Atoi
\* A decimal integer: an optional sign and one digit or more.  Values
\* outside the range of int do not occur among the references used here.
Digits == <<"0", "1", "2", "3", "4", "5", "6", "7", "8", "9">>

IsDigit(c) == \E i \in 1..Len(Digits) : Digits[i] = c

DigitVal(c) == (CHOOSE i \in 1..Len(Digits) : Digits[i] = c) - 1

Unsigned(s) ==
  IF s # <<>> /\ s[1] \in {"+", "-"} THEN Tail(s) ELSE s

AtoiAlwaysErr(s) == FALSE

AtoiOk(s) ==
  /\ Unsigned(s) # <<>>
  /\ \A i \in 1..Len(Unsigned(s)) : IsDigit(Unsigned(s)[i])

RECURSIVE DecimalVal(_)
DecimalVal(s) ==
  IF s = <<>> THEN 0
  ELSE 10 * DecimalVal(SubSeq(s, 1, Len(s) - 1)) + DigitVal(s[Len(s)])

AtoiVal(s) ==
  IF s[1] = "-" THEN 0 - DecimalVal(Unsigned(s)) ELSE DecimalVal(Unsigned(s))

\* ----- ValidateFunc of the permissions attribute
\* The characters of the strings tried, with the bytes of their UTF-8
\* encoding: Go compares the one-character strings of strings.Split(value, "")
\* byte by byte, and len(value) counts bytes.
PermChars == {"/", "0", "7", "8", "a", "e-acute"}

Utf8(c) ==
  CASE c = "/" -> <<47>> [] c = "0" -> <<48>> [] c = "7" -> <<55>>
    [] c = "8" -> <<56>> [] c = "a" -> <<97>> [] c = "e-acute" -> <<195, 169>>

\* a < b for two strings given as byte sequences
RECURSIVE BytesLess(_, _)
BytesLess(a, b) ==
  IF b = <<>> THEN FALSE
  ELSE IF a = <<>> THEN TRUE
  ELSE IF Head(a) # Head(b) THEN Head(a) < Head(b)
  ELSE BytesLess(Tail(a), Tail(b))

RECURSIVE ByteLen(_)
ByteLen(value) ==
  IF value = <<>> THEN 0 ELSE Len(Utf8(Head(value))) + ByteLen(Tail(value))

PermStrings == UNION {[1..m -> PermChars] : m \in 0..MaxPerm}

\* The errors the validator returns for the value, in the order it appends
\* them; the four resources declare the same function.
ValidateFuncLengthOnly(k, value) ==
  IF ByteLen(value) # 3 THEN <<"has specify 3 permission sets">> ELSE <<>>

ValidateFunc(k, value) ==
  (IF ByteLen(value) # 3 THEN <<"has specify 3 permission sets">> ELSE <<>>)
    \o (IF \E i \in 1..Len(value) :
             \/ BytesLess(Utf8(value[i]), Utf8("0"))
             \/ BytesLess(Utf8("7"), Utf8(value[i]))
        THEN <<"Each character should specify a number from 0 to 7">>
        ELSE <<>>)

\* ----- resourceVnetCreate
Opt(present, key) == IF present THEN <<key>> ELSE <<>>

\* The check with "||" for "&&": an error only when both are missing.
VnetTemplateErrorBothMissing(c) ==
  c.vn_mad = "802.1q" /\ c.phydev = 0 /\ c.vlan_id = 0

\* "For vn_mad 802.1q, both phydev and vlan_id should be given"
VnetTemplateError(c) ==
  c.vn_mad = "802.1q" /\ ~(c.phydev # 0 /\ c.vlan_id # 0)

\* The keys of the template of one.vn.allocate, in the order they are written.
VnetTemplate(c) ==
  <<"NAME">> \o Opt(c.description # 0, "DESCRIPTION")
    \o Opt(c.bridge # 0, "BRIDGE")
    \o Opt(c.vn_mad # "", "VN_MAD")
    \o (IF c.vn_mad = "802.1q" /\ c.phydev # 0 /\ c.vlan_id # 0
        THEN <<"PHYDEV", "VLAN_ID">> ELSE <<>>)
    \o Opt(c.networkmask # 0, "NETWORK_MASK")
    \o Opt(c.gateway # 0, "GATEWAY")
    \o Opt(c.dns # 0, "DNS")

\* What the handler does before its first remote call.
VnetCreateEntry(c) ==
  IF c.reservation_vnet # 0
  THEN (IF c.reservation_vnet <= 0 \/ c.reservation_size <= 0
        THEN "err" ELSE "c_reserve")
  ELSE (IF VnetTemplateError(c) THEN "err" ELSE "c_allocate")

\* The blocks after one.vn.allocate, each under its condition; the handler
\* ends in resourceVnetRead.
VnetCreateSteps == <<"c_chmod", "c_add_ar", "c_hold", "c_secgroups", "read">>

VnetCreateGuard(pos, c) ==
  CASE pos = "c_chmod"     -> c.permissions # 0
    [] pos = "c_add_ar"    -> c.ip_start # NoIp
    [] pos = "c_hold"      -> c.hold_size > 0
    [] pos = "c_secgroups" -> c.security_groups # 0
    [] pos = "read"        -> TRUE

VnetCreateNext(i, c) ==
  LET S == {j \in i..Len(VnetCreateSteps) :
              VnetCreateGuard(VnetCreateSteps[j], c)}
  IN VnetCreateSteps[CHOOSE j \in S : \A m \in S : j <= m]

\* "for i := 0; i < d.Get("hold_size").(int); i++"
HoldWalkMoreInclusive(c, i) == i <= c.hold_size

HoldWalkMore(c, i) == i < c.hold_size

\* resourceVnetDelete: "if hold_size > 0 { for i := 0; i < reservation_size"
ReleaseWalkMore(c, i) == c.hold_size > 0 /\ i < c.reservation_size

\* SIZE of the address range: ip_size, 1 when it is not given.
ArSizeNoDefault(c) == c.ip_size

ArSize(c) == IF c.ip_size # 0 THEN c.ip_size ELSE 1

\* ----- moves of a handler
\* The position a handler stands at after a move, with the lease walk set up
\* when the position is a walk.
Goto(pos) ==
  /\ lpc' = (IF pos = "read" THEN (IF lid' # 0 THEN "read_info" ELSE "read_pool")
             ELSE pos)
  /\ lip' = (IF pos \in {"c_hold", "d_call"} /\ lkind = "vnet"
                /\ cfg.hold_size > 0
             THEN ParseIP(cfg.ip_start) ELSE NoIp)
  /\ li' = 0
  /\ lresult' = "none"

Return(r) ==
  /\ lpc' = "idle" /\ lresult' = r
  /\ lip' = NoIp /\ li' = 0

\* "if err != nil || d.Id() == "" { return err }" after the read of a delete
DeleteAfterReadNoIdCheck(err, id) == IF err THEN "err" ELSE "go"

DeleteAfterRead(err, id) ==
  IF err THEN "err" ELSE IF id = 0 THEN "ok" ELSE "go"

\* resource<Kind>Read returns to the handler that called it.
ReadReturns(err) ==
  IF lop = "delete"
  THEN LET v == DeleteAfterRead(err, lid') IN
       IF v = "go" THEN Goto("d_call") ELSE Return(v)
  ELSE Return(IF err THEN "err" ELSE "ok")

\* Terraform invokes a handler: a new run, with no call issued and no
\* StateChangeConf yet.
Invoke(op) ==
  /\ lpc = "idle"
  /\ lop' = op /\ lcalls' = <<>> /\ lsets' = {}
  /\ pkind' = "image" /\ ptarget' = "ready" /\ pstate' = "idle"
  /\ outcome' = "none" /\ nrefresh' = 0 /\ hist' = <<>> /\ seen' = <<>>
  /\ returned' = "nil" /\ errmsg' = <<>>

\* waitFor<Kind>State is called: a new StateChangeConf.
PollBegin(k, t) ==
  /\ pkind' = k /\ ptarget' = t /\ pstate' = "polling"
  /\ outcome' = "none" /\ nrefresh' = 0 /\ hist' = <<>> /\ seen' = <<>>
  /\ returned' = "nil" /\ errmsg' = <<>>

\* "d.SetId(resp)" after one.vn.reserve: the ID is the response of the call,
\* not the ID of the network the reservation is made from.
ReservedId(resp, source) == resp

\* ----- resourceImageCreate, resourceImageClone, resourceVmCreate,
\* ----- resourceSecurityGroupCreate
\* What a create handler does before its first remote call.
CreateEntry(k, c) ==
  CASE k = "vnet" -> VnetCreateEntry(c)
    [] k = "image" ->
         (IF Len(c.clone_from_image) > 0
          THEN (IF AtoiOk(c.clone_from_image) THEN "c_clone" ELSE "c_resolve")
          ELSE "c_allocate")
    [] OTHER -> "c_allocate"

AllocateMethod(k, c) ==
  CASE k = "vnet" -> "one.vn.allocate"
    [] k = "image" -> "one.image.allocate"
    [] k = "secgroup" -> "one.secgroup.allocate"
    [] k = "vm" -> (IF c.template_id # 0 THEN "one.template.instantiate"
                    ELSE "one.vm.allocate")

ChmodMethod(k) ==
  CASE k = "vnet" -> "one.vn.chmod" [] k = "image" -> "one.image.chmod"
    [] k = "vm" -> "one.vm.chmod" [] k = "secgroup" -> "one.secgroup.chmod"

\* The state a create waits for.
CreateTarget(k) == IF k = "image" THEN "ready" ELSE "running"

\* After the ID is stored: the VirtualNetwork goes on with its blocks, the
\* Image and the VM wait for their state, the SecurityGroup is read.
AfterAllocate(k, c) ==
  CASE k = "vnet" -> VnetCreateNext(1, c)
    [] k \in {"image", "vm"} -> "c_wait"
    [] k = "secgroup" -> "read"

\* The ID a clone is made from: the integer, or what the lookup found.
CloneSource(ref, issued) ==
  IF AtoiOk(ref) THEN AtoiVal(ref) ELSE issued[Len(issued)].got

\* "_, err := waitFor<Kind>State(...); if err != nil { return fmt.Errorf(...) }"
CreateAfterWaitIgnoreErr(out) == "go"

CreateAfterWait(out) == IF out = "success" THEN "go" ELSE "err"

\* The ID set before the wait is what d.Id() holds when the wait has failed.
IdAfterFailedWaitCleared(id) == 0

IdAfterFailedWait(id) == id

\* The blocks after the wait of an Image or a VM create.
ImageVmCreateSteps == <<"c_chmod", "c_persistent", "read">>

ImageVmCreateGuard(pos, k, c) ==
  CASE pos = "c_chmod"      -> c.permissions # 0
    [] pos = "c_persistent" -> k = "image" /\ Len(c.clone_from_image) > 0
    [] pos = "read"         -> TRUE

ImageVmCreateNext(i, k, c) ==
  LET S == {j \in i..Len(ImageVmCreateSteps) :
              ImageVmCreateGuard(ImageVmCreateSteps[j], k, c)}
  IN ImageVmCreateSteps[CHOOSE j \in S : \A m \in S : j <= m]

\* What a read looks at in the resource it has found: TYPE of an Image, the
\* number of NIC elements of a VM, and SECURITY_GROUPS of a VirtualNetwork
\* as strings.Split(..., ",") cuts it (one element at least).
NoDetail == [type |-> <<>>, nics |-> 0, secgroups |-> << <<>> >>]

ImageTypes == {<<>>, <<"0">>, <<"5">>, <<"6">>, <<"-", "1">>, <<"a">>}

SecurityGroupLists ==
  {<< <<>> >>, << <<"1">> >>, << <<"1">>, <<"2">> >>, << <<"1">>, <<>> >>,
   << <<"1">>, <<"a">> >>, << <<"a">> >>}

Details(k) ==
  CASE ReadKind(k) = "image" ->
         {[NoDetail EXCEPT !.type = t] : t \in ImageTypes}
    [] ReadKind(k) = "vm" -> {[NoDetail EXCEPT !.nics = n] : n \in {0, 1}}
    [] ReadKind(k) = "vnet" ->
         {[NoDetail EXCEPT !.secgroups = g] : g \in SecurityGroupLists}
    [] OTHER -> {NoDetail}

image_type_id_name ==
  [i \in 0..5 |->
     <<"OS", "CDROM", "DATABLOCK", "KERNEL", "RAMDISK", "CONTEXT">>[i + 1]]

\* "if imgtypeint, err := strconv.Atoi(img.Type); err == nil {
\*    if val, ok := image_type_id_name[imgtypeint]; ok { d.Set("type", val) } }"
ImageTypeKnown(t) == AtoiOk(t) /\ AtoiVal(t) \in DOMAIN image_type_id_name

\* "for _, i := range secgroups_str { if i != "" { j, err := strconv.Atoi(i);
\*    if err != nil { return err } ... } }"
SecurityGroupsOk(g) == \A i \in 1..Len(g) : g[i] = <<>> \/ AtoiOk(g[i])

\* The read of a VirtualNetwork returns the error of the conversion, after
\* the other attributes are written.
ReadErr(k, det) == ReadKind(k) = "vnet" /\ ~SecurityGroupsOk(det.secgroups)

\* The attributes a read writes with d.Set once the resource is found.
ReadFields(k, det) ==
  LET r == ReadKind(k) IN
  CASE r = "image" ->
         {"name", "uid", "gid", "uname", "gname", "permissions",
          "persistent", "path", "size", "dev_prefix", "driver"}
           \cup (IF ImageTypeKnown(det.type) THEN {"type"} ELSE {})
    [] r = "vm" ->
         {"instance", "uid", "gid", "uname", "gname", "state", "lcmstate",
          "permissions"}
           \cup (IF det.nics # 0 THEN {"nic", "ip"} ELSE {})
    [] r = "vnet" ->
         {"name", "uid", "gid", "uname", "gname", "bridge",
          "reservation_vnet", "permissions", "vn_mad", "phydev", "vlan_id",
          "dns", "gateway", "networkmask"}
           \cup (IF SecurityGroupsOk(det.secgroups) THEN {"security_groups"}
                 ELSE {})
    [] r = "secgroup" -> {"uid", "gid", "uname", "gname", "permissions",
                          "description", "rule"}
    [] r \in {"user", "group"} -> {"name"}

\* "if !found { d.SetId(""); return nil }" comes before every d.Set.
ReadProjectsAlways(found, k, det) == ReadFields(k, det)

ReadProjects(found, k, det) == IF found THEN ReadFields(k, det) ELSE {}

\* ----- the create handlers, one action per remote call
CreateStart ==
  /\ Invoke("create") /\ lkind \in Kinds /\ lid = 0 /\ lop = "none"
  /\ lid' = lid
  /\ LET e == CreateEntry(lkind, cfg) IN
       IF e = "err" THEN Return("err") ELSE Goto(e)
  /\ UNCHANGED <<lkind, cfg>>
  /\ UNCHANGED <<updVars, fnVars, wVars>>

CreateReserve ==
  /\ lpc = "c_reserve"
  /\ \E res \in {"ok", "fail", "bad"} :
       /\ lcalls' = Append(lcalls,
            [LCall("one.vn.reserve", cfg.reservation_vnet, res)
               EXCEPT !.size = cfg.reservation_size,
                      !.tmpl = <<"SIZE", "NAME">>,
                      !.got = IF res = "ok" THEN NewId ELSE 0])
       /\ lid' = (IF res = "ok" THEN ReservedId(NewId, cfg.reservation_vnet)
                  ELSE IF res = "bad" THEN BadId ELSE lid)
       /\ IF res = "ok" THEN Goto(VnetCreateNext(4, cfg)) ELSE Return("err")
  /\ UNCHANGED <<lkind, cfg, lop, lsets>>
  /\ UNCHANGED <<updVars, pollVars, fnVars, wVars>>

CreateAllocate ==
  /\ lpc = "c_allocate"
  /\ \E res \in {"ok", "fail"} :
       /\ lcalls' = Append(lcalls,
            [LCall(AllocateMethod(lkind, cfg), -1, res)
               EXCEPT !.tmpl = IF lkind = "vnet" THEN VnetTemplate(cfg)
                               ELSE <<"NAME">>,
                      !.got = IF res = "ok" THEN NewId ELSE 0])
       /\ lid' = (IF res = "ok" THEN NewId ELSE lid)
       /\ IF res = "fail" THEN Return("err") /\ UNCHANGED pollVars
          ELSE IF AfterAllocate(lkind, cfg) = "c_wait"
          THEN /\ lpc' = "c_wait"
               /\ UNCHANGED <<lresult, lip, li>>
               /\ PollBegin(lkind, CreateTarget(lkind))
          ELSE Goto(AfterAllocate(lkind, cfg)) /\ UNCHANGED pollVars
  /\ UNCHANGED <<lkind, cfg, lop, lsets>>
  /\ UNCHANGED <<updVars, fnVars, wVars>>

\* getImageIdByName for a clone_from_image that is no integer: any error of
\* it is reported as "Unable to find Image by ID or name".
CreateCloneResolve ==
  /\ lpc = "c_resolve"
  /\ \E res \in {"ok", "fail", "bad"} : \E pool \in LifePools :
       LET m == IF res = "ok" THEN FirstMatch(pool, cfg.clone_from_image)
                ELSE NotFound
       IN /\ lcalls' = Append(lcalls,
               [LCall("one.imagepool.info", -3,
                      IF res = "ok" /\ ~m.found THEN "nomatch" ELSE res)
                  EXCEPT !.got = m.id])
          /\ lid' = lid
          /\ IF m.found THEN Goto("c_clone") ELSE Return("err")
  /\ UNCHANGED <<lkind, cfg, lop, lsets>>
  /\ UNCHANGED <<updVars, pollVars, fnVars, wVars>>

CreateClone ==
  /\ lpc = "c_clone"
  /\ \E res \in {"ok", "fail"} :
       /\ lcalls' = Append(lcalls,
            [LCall("one.image.clone", CloneSource(cfg.clone_from_image, lcalls),
                   res)
               EXCEPT !.got = IF res = "ok" THEN NewId ELSE 0])
       /\ lid' = (IF res = "ok" THEN NewId ELSE lid)
       /\ IF res = "fail" THEN Return("err") /\ UNCHANGED pollVars
          ELSE /\ lpc' = "c_wait"
               /\ UNCHANGED <<lresult, lip, li>>
               /\ PollBegin(lkind, CreateTarget(lkind))
  /\ UNCHANGED <<lkind, cfg, lop, lsets>>
  /\ UNCHANGED <<updVars, fnVars, wVars>>

\* WaitForState has returned to the create handler of an Image or a VM.
CreateWaitReturn ==
  /\ lpc = "c_wait" /\ pstate = "done"
  /\ IF CreateAfterWait(outcome) = "go"
     THEN /\ lid' = lid
          /\ Goto(ImageVmCreateNext(1, lkind, cfg))
     ELSE /\ lid' = IdAfterFailedWait(lid)
          /\ Return("err")
  /\ UNCHANGED <<lkind, cfg, lop, lcalls, lsets>>
  /\ UNCHANGED <<updVars, pollVars, fnVars, wVars>>

CreateChmod ==
  /\ lpc = "c_chmod"
  /\ \E res \in {"ok", "fail"} :
       /\ lcalls' = Append(lcalls,
            LCall(changePermissions(ChmodMethod(lkind)).method, lid, res))
       /\ lid' = lid
       /\ IF res = "fail" THEN Return("err")
          ELSE IF lkind = "vnet" THEN Goto(VnetCreateNext(2, cfg))
          ELSE Goto(ImageVmCreateNext(2, lkind, cfg))
  /\ UNCHANGED <<lkind, cfg, lop, lsets>>
  /\ UNCHANGED <<updVars, pollVars, fnVars, wVars>>

\* "set persistency if needed": the last call of resourceImageClone.
CreatePersistent ==
  /\ lpc = "c_persistent"
  /\ \E res \in {"ok", "fail"} :
       /\ lcalls' = Append(lcalls, LCall("one.image.persistent", lid, res))
       /\ lid' = lid
       /\ IF res = "ok" THEN Goto("read") ELSE Return("err")
  /\ UNCHANGED <<lkind, cfg, lop, lsets>>
  /\ UNCHANGED <<updVars, pollVars, fnVars, wVars>>

CreateAddAr ==
  /\ lpc = "c_add_ar"
  /\ \E res \in {"ok", "fail"} :
       /\ lcalls' = Append(lcalls,
            [LCall("one.vn.add_ar", lid, res)
               EXCEPT !.ip = cfg.ip_start, !.size = ArSize(cfg),
                      !.tmpl = <<"TYPE = IP4", "IP", "SIZE">>])
       /\ lid' = lid
       /\ IF res = "ok" THEN Goto(VnetCreateNext(3, cfg)) ELSE Return("err")
  /\ UNCHANGED <<lkind, cfg, lop, lsets>>
  /\ UNCHANGED <<updVars, pollVars, fnVars, wVars>>

\* One turn of the hold loop: the call with the current ip, then ip[3]++,
\* which panics on the nil ip of an ip_start that is no IPv4 address.
CreateHold ==
  /\ lpc = "c_hold"
  /\ \E res \in {"ok", "fail"} :
       /\ lcalls' = Append(lcalls,
            [LCall("one.vn.hold", lid, res) EXCEPT !.ip = lip])
       /\ lid' = lid
       /\ IF res = "fail" THEN Return("err")
          ELSE IF lip = NoIp THEN Return("panic")
          ELSE IF HoldWalkMore(cfg, li + 1)
          THEN /\ lip' = IncLastOctet(lip) /\ li' = li + 1
               /\ UNCHANGED <<lpc, lresult>>
          ELSE Goto(VnetCreateNext(4, cfg))
  /\ UNCHANGED <<lkind, cfg, lop, lsets>>
  /\ UNCHANGED <<updVars, pollVars, fnVars, wVars>>

CreateSecGroups ==
  /\ lpc = "c_secgroups"
  /\ \E res \in {"ok", "fail"} :
       /\ lcalls' = Append(lcalls, LCall(setVnetSecurityGroups.method, lid, res))
       /\ lid' = lid
       /\ IF res = "ok" THEN Goto("read") ELSE Return("err")
  /\ UNCHANGED <<lkind, cfg, lop, lsets>>
  /\ UNCHANGED <<updVars, pollVars, fnVars, wVars>>

\* ----- resource<Kind>Read
\* Of what a read copies from the remote resource into the attributes, the
\* ID is the part the handlers act upon.
ReadStart ==
  /\ lkind \in LifeKinds
  /\ Invoke("read")
  /\ IF lkind \in Kinds THEN lid # 0 /\ lid' = lid ELSE lid' = 0
  /\ Goto("read")
  /\ UNCHANGED <<lkind, cfg>>
  /\ UNCHANGED <<updVars, fnVars, wVars>>

\* The lookup by ID: a failure of the call is logged and the lookup by name
\* follows; a response that does not unmarshal is returned as the error.
\* "d.SetId(strconv.Itoa(vn.Id))": the ID becomes the ID in the answer.
ReadInfo ==
  /\ lpc = "read_info"
  /\ \E res \in {"ok", "fail", "bad"} :
     \E det \in (IF res = "ok" THEN Details(lkind) ELSE {NoDetail}) :
     \E got \in (IF res = "ok" THEN Ids ELSE {0}) :
       /\ lcalls' = Append(lcalls,
            [LCall(InfoMethod(lkind), lid, res) EXCEPT !.got = got])
       /\ lid' = (IF res = "ok" THEN got ELSE lid)
       /\ lsets' = lsets \cup ReadProjects(res = "ok", lkind, det)
       /\ IF res = "fail"
          THEN /\ lpc' = "read_pool"
               /\ UNCHANGED <<lresult, lip, li>>
          ELSE ReadReturns(res = "bad" \/ (res = "ok" /\ ReadErr(lkind, det)))
  /\ UNCHANGED <<lkind, cfg, lop>>
  /\ UNCHANGED <<updVars, pollVars, fnVars, wVars>>

\* The lookup by name in the pool: the first resource with the name gives
\* the ID; without one the ID is cleared and the read returns nil.
ReadPool ==
  /\ lpc = "read_pool"
  /\ \E res \in {"ok", "fail", "bad"} : \E pool \in LifePools :
       LET m == IF res = "ok" THEN FirstMatch(pool, ResourceName)
                ELSE NotFound
       IN \E det \in (IF m.found THEN Details(lkind) ELSE {NoDetail}) :
          /\ lcalls' = Append(lcalls,
               [LCall(PoolMethod(lkind), PoolFilter(lkind),
                      IF res = "ok" /\ ~m.found THEN "nomatch" ELSE res)
                  EXCEPT !.got = m.id])
          /\ lid' = (IF res = "ok" THEN m.id ELSE lid)
          /\ lsets' = lsets \cup ReadProjects(m.found, lkind, det)
          /\ ReadReturns(res \in {"fail", "bad"}
                         \/ (m.found /\ ReadErr(lkind, det)))
  /\ UNCHANGED <<lkind, cfg, lop>>
  /\ UNCHANGED <<updVars, pollVars, fnVars, wVars>>

\* ----- resource<Kind>Delete
DeleteStart ==
  /\ Invoke("delete") /\ lkind \in Kinds /\ lid # 0
  /\ lid' = lid
  /\ Goto("read")
  /\ UNCHANGED <<lkind, cfg>>
  /\ UNCHANGED <<updVars, fnVars, wVars>>

\* The next remote call of the delete handler: a release of the lease walk
\* of a VirtualNetwork while the walk lasts, then the delete itself, after
\* which the Image and the VM handlers wait for the terminal state.
DeleteCall ==
  /\ lpc = "d_call"
  /\ \E res \in {"ok", "fail"} :
       IF lkind = "vnet" /\ ReleaseWalkMore(cfg, li)
       THEN /\ lcalls' = Append(lcalls,
                 [LCall("one.vn.release", lid, res) EXCEPT !.ip = lip])
            /\ lid' = lid
            /\ IF res = "fail" THEN Return("err")
               ELSE IF lip = NoIp THEN Return("panic")
               ELSE /\ lip' = IncLastOctet(lip) /\ li' = li + 1
                    /\ UNCHANGED <<lpc, lresult>>
            /\ UNCHANGED pollVars
       ELSE /\ lcalls' = Append(lcalls, LCall(DeleteMethod(lkind), lid, res))
            /\ IF res = "fail"
               THEN Return("err") /\ lid' = lid /\ UNCHANGED pollVars
               ELSE IF lkind \in {"image", "vm"}
               THEN /\ lpc' = "d_wait" /\ lid' = lid
                    /\ UNCHANGED <<lresult, lip, li>>
                    /\ PollBegin(lkind, IF lkind = "image" THEN "notfound"
                                        ELSE "done")
               ELSE Return("ok") /\ lid' = 0 /\ UNCHANGED pollVars
  /\ UNCHANGED <<lkind, cfg, lop, lsets>>
  /\ UNCHANGED <<updVars, fnVars, wVars>>

\* WaitForState has returned to the delete handler.
DeleteWaitReturn ==
  /\ lpc = "d_wait" /\ pstate = "done"
  /\ IF outcome = "success" THEN Return("ok") /\ lid' = 0
     ELSE Return("err") /\ lid' = lid
  /\ UNCHANGED <<lkind, cfg, lop, lcalls, lsets>>
  /\ UNCHANGED <<updVars, pollVars, fnVars, wVars>>

\* ----- resourceTemplate
\* A handler of opennebula_template runs.  Its code is not known: it may
\* issue remote calls of any method (one entry with the method Unknown
\* stands for them), leave any ID in the record, write attributes, and
\* return nil or an error.
Unknown == "unknown"

TemplateHandler ==
  /\ lkind \in OpaqueKinds /\ lpc = "idle"
  /\ \E op \in {"create", "read", "update", "delete"} : lop' = op
  /\ \E id \in {0} \cup Ids : \E r \in {"ok", "err"} :
       /\ lid' = id
       /\ lcalls' \in {<<>>, <<LCall(Unknown, id, "ok")>>,
                       <<LCall(Unknown, id, "fail")>>}
       /\ lsets' \in {{}, {Unknown}}
       /\ Return(r)
  /\ pkind' = "image" /\ ptarget' = "ready" /\ pstate' = "idle"
  /\ outcome' = "none" /\ nrefresh' = 0 /\ hist' = <<>> /\ seen' = <<>>
  /\ returned' = "nil" /\ errmsg' = <<>>
  /\ UNCHANGED <<lkind, cfg>>
  /\ UNCHANGED <<updVars, fnVars, wVars>>

LifeInit ==
  /\ UpdIdle /\ PollIdle /\ FnIdle /\ WorldIdle
  /\ \E k \in LifeKinds \cup OpaqueKinds : LifeStart(k)

LifeNext ==
  \/ CreateStart
  \/ CreateReserve
  \/ CreateAllocate
  \/ CreateChmod
  \/ CreateAddAr
  \/ CreateHold
  \/ CreateSecGroups
  \/ ReadStart
  \/ ReadInfo
  \/ ReadPool
  \/ DeleteStart
  \/ DeleteCall
  \/ PollRefresh
  \/ PollTimeout
  \/ PollTimeoutInFlight
  \/ DeleteWaitReturn
  \/ TemplateHandler

LifeSpec == LifeInit /\ [][LifeNext]_vars

\* ============================================ create of an Image or a VM
CreateInit ==
  /\ UpdIdle /\ PollIdle /\ FnIdle /\ WorldIdle
  /\ \E k \in NewKinds : CreateStartState(k)

CreateNext ==
  \/ CreateStart
  \/ CreateAllocate
  \/ CreateCloneResolve
  \/ CreateClone
  \/ PollRefresh
  \/ PollTimeout
  \/ PollTimeoutInFlight
  \/ CreateWaitReturn
  \/ CreateChmod
  \/ CreatePersistent
  \/ ReadInfo
  \/ ReadPool

CreateSpec == CreateInit /\ [][CreateNext]_vars

\* ===================================== name lookup and permission validator
\* The functions applied to the inputs of a bounded set: the lookup of a
\* reference in a pool, and the validator on a permission string.
Refs == Names \cup {<<"c">>, <<"a", "b">>, <<>>}

\* ----- permission codec
\* The valid permission strings: three characters, each of '0'..'7'.
OctalDigits == {Digits[i] : i \in 1..8}

OctalStrings == [1..3 -> OctalDigits]

Subjects == <<"owner", "group", "other">>

\* The flags of one subject from its digit: use, manage, admin from the most
\* to the least significant bit.
SubjectBits(c) ==
  [u |-> DigitVal(c) \div 4, m |-> (DigitVal(c) \div 2) % 2,
   a |-> DigitVal(c) % 2]

\* permission(s): the permission attribute structure sent with *.chmod.
permission(s) ==
  [owner |-> SubjectBits(s[1]), group |-> SubjectBits(s[2]),
   other |-> SubjectBits(s[3])]

\* The digit of one subject, with the admin flag taken as the most
\* significant bit.
SubjectDigitAdminFirst(b) == Digits[4 * b.a + 2 * b.m + b.u + 1]

SubjectDigit(b) == Digits[4 * b.u + 2 * b.m + b.a + 1]

\* permissionString(p): the three digits of the structure a read receives.
permissionString(p) ==
  [i \in 1..3 |-> SubjectDigit(p[Subjects[i]])]

\* ----- resourceVMCustomizeDiff
\* The planned diff of a VM as far as the step is concerned: the stored and
\* the planned value of lcmstate, and whether the plan replaces the VM.
CustomizeLcmStates == LcmStates \cup {LcmBootFailure - 1, LcmBootFailure + 1}

Diffs ==
  {[old |-> l, new |-> l, requiresNew |-> r] :
     l \in CustomizeLcmStates, r \in BOOLEAN}

\* diff.SetNew("lcmstate", v): lcmstate is Computed, the planned value is v.
SetNew(diff, v) == [diff EXCEPT !.new = v]

\* diff.ForceNew("lcmstate"): an error when the attribute has no change,
\* otherwise the change forces a new resource.
ForceNew(diff) ==
  IF diff.old = diff.new
  THEN [diff |-> diff, err |-> TRUE]
  ELSE [diff |-> [diff EXCEPT !.requiresNew = TRUE], err |-> FALSE]

\* The step without the SetNew: the attribute has no change to force.
resourceVMCustomizeDiffNoSetNew(diff) ==
  IF diff.new = LcmBootFailure
  THEN ForceNew(diff)
  ELSE [diff |-> diff, err |-> FALSE]

resourceVMCustomizeDiff(diff) ==
  IF diff.new = LcmBootFailure
  THEN ForceNew(SetNew(diff, LcmRunning))
  ELSE [diff |-> diff, err |-> FALSE]

\* ----- template builders
\* The optional attributes of an Image that generateImageXML reads with
\* GetOk, and those of a VM; 1 is "set in the configuration".  persistent
\* has a schema default and cpu, vcpu and memory are required.
ImageOptional ==
  {"description", "type", "size", "dev_prefix", "target", "driver", "path",
   "md5", "sha1"}

VmOptional == {"name", "context", "nic", "disk", "graphics", "os", "raw"}

\* The optional attributes that resourceVnetCreate reads with GetOk for the
\* template; phydev and vlan_id are read under vn_mad "802.1q" only.
VnetOptional ==
  {"description", "bridge", "vn_mad", "phydev", "vlan_id", "networkmask",
   "gateway", "dns"}

TemplateOptional(k) ==
  CASE k = "image" -> ImageOptional [] k = "vm" -> VmOptional
    [] k = "vnet" -> VnetOptional

TemplateConfigs(k) ==
  CASE k = "image" -> [ImageOptional -> {0, 1}]
    [] k = "vm" -> [VmOptional -> {0, 1}]
    [] k = "vnet" -> {c \in VnetTemplateConfigs : ~VnetTemplateError(c)}

\* The element or attribute line of an optional attribute.
TemplateKey(f) ==
  CASE f = "description" -> "DESCRIPTION" [] f = "type" -> "TYPE"
    [] f = "size" -> "SIZE" [] f = "dev_prefix" -> "DEV_PREFIX"
    [] f = "target" -> "TARGET" [] f = "driver" -> "DRIVER"
    [] f = "path" -> "PATH" [] f = "md5" -> "MD5" [] f = "sha1" -> "SHA1"
    [] f = "name" -> "NAME" [] f = "context" -> "CONTEXT"
    [] f = "nic" -> "NIC" [] f = "disk" -> "DISK"
    [] f = "graphics" -> "GRAPHICS" [] f = "os" -> "OS" [] f = "raw" -> "RAW"
    [] f = "bridge" -> "BRIDGE" [] f = "vn_mad" -> "VN_MAD"
    [] f = "phydev" -> "PHYDEV" [] f = "vlan_id" -> "VLAN_ID"
    [] f = "networkmask" -> "NETWORK_MASK" [] f = "gateway" -> "GATEWAY"
    [] f = "dns" -> "DNS"

\* The elements of the IMAGE document, in the order of the fields of Image:
\* every field but NAME is tagged omitempty, a field that GetOk did not find
\* keeps its zero value, and PERSISTENT is "NO" or "YES".
generateImageXML(c) ==
  <<"NAME">> \o Opt(c.description # 0, "DESCRIPTION")
    \o Opt(c.size # 0, "SIZE") \o Opt(c.path # 0, "PATH")
    \o <<"PERSISTENT">> \o Opt(c.type # 0, "TYPE")
    \o Opt(c.dev_prefix # 0, "DEV_PREFIX") \o Opt(c.target # 0, "TARGET")
    \o Opt(c.driver # 0, "DRIVER") \o Opt(c.md5 # 0, "MD5")
    \o Opt(c.sha1 # 0, "SHA1")

\* The elements of the TEMPLATE document, in the order of the fields of
\* VmTemplate: NAME is omitempty; an empty StringMap marshals to nothing and
\* an empty slice to no element; Graphics, OS and RAW are struct values,
\* which the encoder writes whatever they hold.
generateVmXML(c) ==
  Opt(c.name # 0, "NAME") \o <<"VCPU", "CPU", "MEMORY">>
    \o Opt(c.context # 0, "CONTEXT") \o Opt(c.nic # 0, "NIC")
    \o Opt(c.disk # 0, "DISK") \o <<"GRAPHICS", "OS", "RAW">>

\* The template a create sends with its allocate call.
AllocateTemplate(k, c) ==
  CASE k = "image" -> generateImageXML(c) [] k = "vm" -> generateVmXML(c)
    [] k = "vnet" -> VnetTemplate(c)

FnInputs(f) ==
  CASE f = "resolve" -> [pool : Pools, ref : Refs]
    [] f = "validate" -> [kind : Kinds, value : PermStrings]
    [] f = "codec" -> [kind : Kinds, value : OctalStrings]
    [] f = "customize" -> [diff : Diffs]
    [] f = "template" ->
         UNION {[kind : {k}, c : TemplateConfigs(k)] :
                  k \in {"image", "vm", "vnet"}}

FnInit ==
  /\ UpdIdle /\ PollIdle /\ LifeIdle /\ WorldIdle
  /\ fn \in {"resolve", "validate", "codec", "customize", "template"}
  /\ farg \in FnInputs(fn)
  /\ fres = <<>>

\* The loop over the pool of getImageIdByName and of the read handlers.
Resolve ==
  /\ fn = "resolve" /\ fres = <<>>
  /\ fres' = <<FirstMatch(farg.pool, farg.ref)>>
  /\ UNCHANGED <<fn, farg>>
  /\ UNCHANGED <<updVars, pollVars, lifeVars, wVars>>

\* Terraform validates the permissions attribute of a configuration.
Validate ==
  /\ fn = "validate" /\ fres = <<>>
  /\ fres' = <<ValidateFunc(farg.kind, farg.value)>>
  /\ UNCHANGED <<fn, farg>>
  /\ UNCHANGED <<updVars, pollVars, lifeVars, wVars>>

\* A create or an update sends permission(value) with <kind>.chmod, the
\* remote keeps the structure, and the read that follows sets "permissions" from
\* permissionString of the structure it receives.
Codec ==
  /\ fn = "codec" /\ fres = <<>>
  /\ LET sent == permission(farg.value) IN
       fres' = <<[method |-> ChmodMethod(farg.kind), sent |-> sent,
                  permissions |-> permissionString(sent)]>>
  /\ UNCHANGED <<fn, farg>>
  /\ UNCHANGED <<updVars, pollVars, lifeVars, wVars>>

\* Terraform runs the CustomizeDiff of the VM resource on a planned diff.
Customize ==
  /\ fn = "customize" /\ fres = <<>>
  /\ fres' = <<resourceVMCustomizeDiff(farg.diff)>>
  /\ UNCHANGED <<fn, farg>>
  /\ UNCHANGED <<updVars, pollVars, lifeVars, wVars>>

\* A create builds the template of its allocate call.
Template ==
  /\ fn = "template" /\ fres = <<>>
  /\ fres' = <<AllocateTemplate(farg.kind, farg.c)>>
  /\ UNCHANGED <<fn, farg>>
  /\ UNCHANGED <<updVars, pollVars, lifeVars, wVars>>

FnNext ==
  \/ Template
  \/ Resolve
  \/ Validate
  \/ Codec
  \/ Customize

FnSpec == FnInit /\ [][FnNext]_vars

\* ==================================== two reconciliations against one remote
\* Two processes of Terraform, each with the record of its own resource, call
\* the handlers against the same remote.  The remote answers a call from the
\* resources it holds at that moment and has completed an operation when it
\* answers the call; it never gives an ID a second time.
Procs == {1, 2}

MaxCreates == 1

MaxOps == 3

\* The handlers Terraform invokes in a process: up to MaxOps in process 1,
\* one fewer in process 2.
MaxOpsOf(p) == IF p = 1 THEN MaxOps ELSE MaxOps - 1

WIds == 1..(MaxCreates + 2)

\* d.Get("name") of the record of a process.
ProcName(p) == IF p = 1 THEN <<"a">> ELSE <<"b">>

\* A resource of the remote: not allocated yet, present, a terminated VM
\* (which one.vm.info still answers, with STATE 6), or deleted.
NoResource == [name |-> <<>>, st |-> "free"]

\* "client.Call("one.<kind>.info", intId(d.Id()))": err == nil
WInfo(w, id) == id \in WIds /\ w[id].st \in {"live", "done"}

\* vm.State of the response; the other kinds have no state in their record.
WState(k, r) ==
  IF k # "vm" THEN 0
  ELSE IF r.st = "done" THEN VmStateDone ELSE VmStateActive

\* The response of the pool call: the present resources, by ID.
RECURSIVE WPool(_, _)
WPool(w, i) ==
  IF i \notin WIds THEN <<>>
  ELSE (IF w[i].st = "live" THEN <<[id |-> i, name |-> w[i].name]>> ELSE <<>>)
         \o WPool(w, i + 1)

\* The ID the remote gives to the next resource; 0 when it has none left.
WNewId(w) ==
  LET F == {i \in WIds : w[i].st = "free"}
  IN IF F = {} THEN 0 ELSE CHOOSE i \in F : \A j \in F : i <= j

WCall(method, id, res) == [method |-> method, id |-> id, res |-> res]

\* The handler returns; Terraform keeps what it did in the log of the process.
WReturn(pr, res) ==
  [pr EXCEPT !.pc = "idle", !.result = res,
             !.log = Append(@, [op |-> pr.op, result |-> res,
                                id |-> pr.target])]

\* resourceVmExists without the test of the state.
ExistsResultNoState(k, err, id, state) == ~(err \/ id = 0)

\* "if err != nil || d.Id() == "" { return false, err }; return true, nil",
\* and for the VM also "|| d.Get("state").(int) == 6".
ExistsResult(k, err, id, state) ==
  ~(err \/ id = 0 \/ (k = "vm" /\ state = VmStateDone))

\* resource<Kind>Read returns nil to the handler that called it.
WAfterRead(k, pr) ==
  CASE pr.op = "exists" ->
         WReturn([pr EXCEPT !.exists = ExistsResult(k, FALSE, pr.id, pr.state)],
                 "ok")
    [] pr.op = "delete" ->
         (IF DeleteAfterRead(FALSE, pr.id) = "go"
          THEN [pr EXCEPT !.pc = "d_call"]
          ELSE WReturn(pr, DeleteAfterRead(FALSE, pr.id)))
    [] OTHER -> WReturn(pr, "ok")

\* The lookup by ID of resource<Kind>Read.
WReadInfo(k, pr, w) ==
  IF WInfo(w, pr.id)
  THEN WAfterRead(k,
         [pr EXCEPT !.calls = Append(@, WCall(InfoMethod(k), pr.id, "ok")),
                    !.state = WState(k, w[pr.id])])
  ELSE [pr EXCEPT !.calls = Append(@, WCall(InfoMethod(k), pr.id, "fail")),
                  !.pc = "read_pool"]

\* The lookup by name of resource<Kind>Read.
WReadPool(k, pr, w) ==
  LET m == FirstMatch(WPool(w, 1), pr.name)
  IN WAfterRead(k,
       [pr EXCEPT !.calls = Append(@, WCall(PoolMethod(k), PoolFilter(k),
                                 IF m.found THEN "ok" ELSE "nomatch")),
                  !.id = m.id,
                  !.state = IF m.found THEN WState(k, w[m.id]) ELSE @])

\* one.<kind>.delete, or one.vm.action terminate-hard: the remote refuses it
\* for a resource that is not present.  Terraform clears the ID when the
\* handler has returned nil.
WDeleteCall(k, pr, w) ==
  IF w[pr.id].st # "live"
  THEN [proc |-> WReturn([pr EXCEPT !.calls =
                            Append(@, WCall(DeleteMethod(k), pr.id, "fail"))],
                         "err"),
        world |-> w]
  ELSE LET called == [pr EXCEPT !.calls =
                        Append(@, WCall(DeleteMethod(k), pr.id, "ok")),
                                !.target = pr.id]
       IN [proc |-> IF k \in {"image", "vm"}
                    THEN [called EXCEPT !.pc = "d_wait"]
                    ELSE WReturn([called EXCEPT !.id = 0], "ok"),
           world |-> [w EXCEPT ![pr.id].st =
                        IF k = "vm" THEN "done" ELSE "gone"]]

\* waitForImageState(d, meta, "notfound"), waitForVmState(d, meta, "done"):
\* the Refresh reads the resource by its ID.
WDeleteWait(k, pr, w) ==
  LET ok == WInfo(w, pr.id)
      called == [pr EXCEPT !.calls = Append(@,
                   WCall(InfoMethod(k), pr.id, IF ok THEN "ok" ELSE "fail"))]
      reached == IF k = "image" THEN ~ok
                 ELSE ok /\ WState(k, w[pr.id]) = VmStateDone
  IN IF reached THEN WReturn([called EXCEPT !.id = 0], "ok")
     ELSE WReturn(called, "err")

\* one.<kind>.allocate and "d.SetId(resp)".
WAllocate(k, pr, w) ==
  LET n == WNewId(w)
      called == [pr EXCEPT !.calls = Append(@,
                   WCall(AllocateMethod(k, NoConfig), -1,
                         IF n = 0 THEN "fail" ELSE "ok"))]
  IN IF n = 0
     THEN [proc |-> WReturn(called, "err"), world |-> w]
     ELSE [proc |-> [called EXCEPT !.id = n, !.target = n,
                       !.pc = IF k \in {"image", "vm"} THEN "c_wait"
                              ELSE "read_info"],
           world |-> [w EXCEPT ![n] = [name |-> pr.name, st |-> "live"]]]

\* waitForImageState(d, meta, "ready"), waitForVmState(d, meta, "running").
\* The Refresh reads the resource by its ID; a VM that is done is read, and
\* its state is neither pending nor the target.
WCreateWait(k, pr, w) ==
  LET ok == WInfo(w, pr.id)
      called == [pr EXCEPT !.calls = Append(@,
                   WCall(InfoMethod(k), pr.id, IF ok THEN "ok" ELSE "fail"))]
      reached == ok /\ w[pr.id].st = "live"
  IN IF reached THEN [called EXCEPT !.pc = "read_info"]
     ELSE WReturn(called, "err")

\* The next remote call of the handler a process is in, and what it leaves.
WStep(k, pr, w) ==
  CASE pr.pc = "read_info" -> [proc |-> WReadInfo(k, pr, w), world |-> w]
    [] pr.pc = "read_pool" -> [proc |-> WReadPool(k, pr, w), world |-> w]
    [] pr.pc = "d_call" -> WDeleteCall(k, pr, w)
    [] pr.pc = "d_wait" -> [proc |-> WDeleteWait(k, pr, w), world |-> w]
    [] pr.pc = "c_allocate" -> WAllocate(k, pr, w)
    [] pr.pc = "c_wait" -> [proc |-> WCreateWait(k, pr, w), world |-> w]
    [] OTHER -> [proc |-> pr, world |-> w]

\* Terraform invokes a handler on the record with the given ID.
WInvoke(pr, op, id) ==
  [pr EXCEPT !.op = op, !.id = id, !.target = 0,
             !.held = IF id # 0 THEN id ELSE @,
             !.pc = IF op = "create" THEN "c_allocate"
                    ELSE IF id # 0 THEN "read_info" ELSE "read_pool",
             !.calls = <<>>, !.result = "none", !.exists = FALSE]

Creates(pr) == Len(SelectSeq(pr.log, LAMBDA e : e.op = "create"))

\* The resource of process 1 is not allocated yet, present or gone, that of
\* process 2 present or gone; a VM may also be terminated.
WorldInit ==
  /\ UpdIdle /\ PollIdle /\ LifeIdle /\ FnIdle
  /\ wkind \in Kinds
  /\ \E s1 \in {"free", "live", "gone", "done"} :
     \E s2 \in {"live", "gone", "done"} :
       /\ "done" \in {s1, s2} => wkind = "vm"
       /\ world = [i \in WIds |->
                     IF i = 1 /\ s1 # "free"
                     THEN [name |-> ProcName(1), st |-> s1]
                     ELSE IF i = 2 THEN [name |-> ProcName(2), st |-> s2]
                     ELSE NoResource]
  /\ alone = [p \in Procs |-> world]
  /\ procs = [p \in Procs |->
                [op |-> "none", pc |-> "idle", name |-> ProcName(p),
                 id |-> IF world[p].st = "free" THEN 0 ELSE p,
                 held |-> IF world[p].st = "free" THEN 0 ELSE p,
                 target |-> 0, calls |-> <<>>, result |-> "none",
                 exists |-> FALSE, state |-> 0, log |-> <<>>]]
  /\ solo = procs

\* The process and its run alone begin the same handler.
WBegin(p, op, id) ==
  /\ procs[p].pc = "idle" /\ Len(procs[p].log) < MaxOpsOf(p)
  /\ procs' = [procs EXCEPT ![p] = WInvoke(@, op, id)]
  /\ solo' = [solo EXCEPT ![p] = WInvoke(@, op, id)]
  /\ UNCHANGED <<wkind, world, alone>>
  /\ UNCHANGED <<updVars, pollVars, lifeVars, fnVars>>

\* Create, for a record without ID.
WorldCreate ==
  \E p \in Procs :
    /\ procs[p].id = 0 /\ Creates(procs[p]) < MaxCreates
    /\ WBegin(p, "create", 0)

\* Read and Delete, for a record with an ID.
WorldRead ==
  \E p \in Procs : procs[p].id # 0 /\ WBegin(p, "read", procs[p].id)

WorldDelete ==
  \E p \in Procs : procs[p].id # 0 /\ WBegin(p, "delete", procs[p].id)

\* Exists, for the record as the last handler left it or as it was saved
\* before.
WorldExists ==
  \E p \in Procs : \E id \in {procs[p].id, procs[p].held} :
    WBegin(p, "exists", id)

\* A process issues the next remote call of its handler; alone, it issues
\* its next call to a remote that only it has acted on.
WorldStep ==
  \E p \in Procs :
    /\ procs[p].pc # "idle"
    /\ LET r == WStep(wkind, procs[p], world)
           a == WStep(wkind, solo[p], alone[p])
       IN /\ procs' = [procs EXCEPT ![p] = r.proc]
          /\ world' = r.world
          /\ solo' = [solo EXCEPT ![p] = a.proc]
          /\ alone' = [alone EXCEPT ![p] = a.world]
    /\ UNCHANGED wkind
    /\ UNCHANGED <<updVars, pollVars, lifeVars, fnVars>>

WorldNext ==
  \/ WorldCreate
  \/ WorldRead
  \/ WorldDelete
  \/ WorldExists
  \/ WorldStep

WorldSpec == WorldInit /\ [][WorldNext]_vars

\* ================================================================== claims

\* ----- the remote calls, recognised by method and payload
IsDescUpdate(c) ==
  c.method \in {"one.image.update", "one.vn.update"} /\ c.sends = {"description"}
IsRename(c) == c.method \in {"one.image.rename", "one.vn.rename"}
IsChmod(c) ==
  c.method \in {"one.image.chmod", "one.vn.chmod", "one.secgroup.chmod",
                "one.vm.chmod"}
IsChown(c) == c.method = "one.vn.chown"
IsArCall(c) == "ip_size" \in c.sends
IsSecGroupMembership(c) ==
  c.method = "one.vn.update" /\ c.sends = {"security_groups"}

\* Calls with a rank appear in increasing rank order.
InRankOrder(Rank(_)) ==
  \A i, j \in 1..Len(calls) :
    (i < j /\ Rank(calls[i]) > 0 /\ Rank(calls[j]) > 0)
      => Rank(calls[i]) < Rank(calls[j])

C1Rank(c) ==
  IF IsDescUpdate(c) THEN 1 ELSE IF IsRename(c) THEN 2
  ELSE IF IsChmod(c) THEN 3 ELSE 0

C1AllThreeChanged ==
  \A f \in {"description", "name", "permissions"} : old[f] # desired[f]

\* C1: in an Image or VirtualNetwork update in which name, permissions and
\* description all changed, the calls are issued in the order description
\* update, rename, chmod, and a successful update has issued all three.
C1_DescRenameChmodOrder ==
  (kind \in {"image", "vnet"} /\ C1AllThreeChanged) =>
    /\ InRankOrder(C1Rank)
    /\ result = "ok" =>
         \E i, j, k \in 1..Len(calls) :
           /\ i < j /\ j < k
           /\ IsDescUpdate(calls[i]) /\ IsRename(calls[j]) /\ IsChmod(calls[k])

C1_Witness ==
  /\ kind = "image" /\ result = "ok" /\ C1AllThreeChanged
  /\ Len(calls) = 3

C2RankClaimed(c) ==
  IF IsDescUpdate(c) THEN 1 ELSE IF IsRename(c) THEN 2
  ELSE IF IsArCall(c) THEN 3 ELSE IF IsSecGroupMembership(c) THEN 4
  ELSE IF IsChown(c) THEN 5 ELSE IF IsChmod(c) THEN 6 ELSE 0

C2RankAmended(c) ==
  IF IsDescUpdate(c) THEN 1 ELSE IF IsSecGroupMembership(c) THEN 2
  ELSE IF IsRename(c) THEN 3 ELSE IF IsArCall(c) THEN 4
  ELSE IF IsChown(c) THEN 5 ELSE IF IsChmod(c) THEN 6 ELSE 0

\* C2 as claimed: a VirtualNetwork update issues its steps in the order
\* description, rename, address-range resize, security-group membership,
\* chown, chmod.
C2_ClaimedVnetOrder == kind = "vnet" => InRankOrder(C2RankClaimed)

\* C2 (amended): a VirtualNetwork update issues its steps in the order
\* description, security-group membership, rename, address-range resize,
\* chown, chmod; no step is issued before one that precedes it in this order.
C2_VnetOrder == kind = "vnet" => InRankOrder(C2RankAmended)

C2_Witness ==
  /\ kind = "vnet" /\ result = "ok"
  /\ \E i, j, k \in 1..Len(calls) :
       /\ i < j /\ j < k
       /\ IsSecGroupMembership(calls[i]) /\ IsRename(calls[j])
       /\ (IsChown(calls[k]) \/ IsChmod(calls[k]) \/ IsArCall(calls[k]))

\* C3: while an update runs, every step whose call succeeded has its fields
\* recorded as committed (SetPartial) before the next call, and a retry after
\* a failed update issues no call for a step that had already succeeded.
C3_CommitMarkers ==
  /\ pc = "running" =>
       \A i \in 1..Len(calls) : calls[i].ok => calls[i].sends \subseteq partial
  /\ prevResult = "err" =>
       \A i \in 1..Len(calls) : \A j \in 1..Len(prevCalls) :
         prevCalls[j].ok => calls[i].step # prevCalls[j].step

\* C4: a failed call is the last call of the update, which returns the error
\* at once; no step is called twice (no compensating call) and what the
\* successful calls sent is still in place at the remote.
C4_FailStops ==
  /\ \A i \in 1..Len(calls) : (~calls[i].ok) => i = Len(calls)
  /\ (calls # <<>> /\ ~calls[Len(calls)].ok) =>
       (pc = "returned" /\ result = "err")
  /\ result = "err" => (calls # <<>> /\ ~calls[Len(calls)].ok)
  /\ \A i, j \in 1..Len(calls) : i # j => calls[i].step # calls[j].step
  /\ \A i \in 1..Len(calls) :
       calls[i].ok => \A f \in calls[i].effects : remote[f] = desired[f]

C4_Witness ==
  /\ kind = "vnet" /\ result = "err" /\ Len(calls) = 3
  /\ \E f \in calls[1].effects : remote[f] # stored[f]

C5Trigger(c) ==
  IF IsChmod(c) THEN {"permissions"}
  ELSE IF IsRename(c) THEN {"name"}
  ELSE IF IsChown(c) THEN {"uid", "gid"}
  ELSE IF c.method \in {"one.secgroup.update", "one.secgroup.commit"}
  THEN {"rule"}
  ELSE IF IsArCall(c) THEN {"ip_start", "ip_size"}
  ELSE c.sends

\* C5: every call an update issues belongs to a step whose field differs
\* between the stored and the desired configuration; with an empty diff the
\* update issues no call.
C5_OnlyChangedFieldsSent ==
  /\ \A i \in 1..Len(calls) :
       \E f \in C5Trigger(calls[i]) : old[f] # desired[f]
  /\ old = desired => calls = <<>>

C5_Witness ==
  /\ runs = 2 /\ result = "ok" /\ old = desired /\ calls = <<>>
  /\ prevCalls # <<>>

\* C6: when an update returns success, every remote field that differed
\* between stored and desired configuration was sent by a successful call
\* of that update and the remote holds the desired value.
C6_AllChangesSent ==
  result = "ok" =>
    \A f \in Fields(kind) \ {"commit"} :
      old[f] # desired[f] =>
        /\ \E i \in 1..Len(calls) : calls[i].ok /\ f \in calls[i].sends
        /\ remote[f] = desired[f]

\* C7 as claimed: every description update is issued in merge mode (1).
C7_ClaimedMergeMode ==
  \A i \in 1..Len(calls) : IsDescUpdate(calls[i]) => calls[i].mode = 1

\* C7 (amended): the description update of a VirtualNetwork is issued in
\* merge mode (1), that of an Image in replace mode (0).
C7_DescriptionMode ==
  \A i \in 1..Len(calls) :
    IsDescUpdate(calls[i]) =>
      calls[i].mode = (IF kind = "vnet" THEN 1 ELSE 0)

C7_Witness ==
  /\ kind = "vnet"
  /\ \E i \in 1..Len(calls) : IsDescUpdate(calls[i]) /\ calls[i].ok

\* ----- the classifications the pollers are specified to make
SpecTarget(k, t, s) ==
  CASE k = "image" /\ t = "ready"    -> s.found /\ s.xml /\ s.state = 1
    [] k = "image" /\ t = "notfound" -> ~s.found
    [] k = "vm" /\ t = "running"     -> s.found /\ s.xml /\ s.state = 3 /\ s.lcm = 3
    [] k = "vm" /\ t = "done"        -> s.found /\ s.xml /\ s.state = 6

SpecError(k, s) ==
  IF k = "image" THEN s.found /\ (~s.xml \/ s.state = 5)
  ELSE (~s.found) \/ (~s.xml) \/ (s.state = 3 /\ s.lcm = 36)

\* C8: a refresh whose classification is neither the target nor an error is
\* pending: it does not end the poller run (only the timeout can).
C8_OtherStatesArePending ==
  \A i \in 1..Len(hist) :
    (~SpecTarget(pkind, ptarget, hist[i]) /\ ~SpecError(pkind, hist[i])) =>
      (i < Len(hist) \/ pstate = "polling" \/ outcome = "timeout")

\* C9: a poller run that has ended has one of the three outcomes target
\* reached, error classification or timeout.
C9_ThreeOutcomes ==
  pstate = "done" => outcome \in {"success", "error", "timeout"}

\* C10: the poller returns the target snapshot at the very refresh that
\* observes the target: every refresh is counted, success is reported exactly
\* when the last snapshot is the target, and no earlier snapshot was.
C10_ExactRefreshCount ==
  /\ nrefresh = Len(hist)
  /\ outcome = "success" <=>
       (hist # <<>> /\ SpecTarget(pkind, ptarget, hist[Len(hist)]))
  /\ outcome = "success" => (pstate = "done" /\ returned = "snapshot")
  /\ \A i \in 1..Len(hist) :
       SpecTarget(pkind, ptarget, hist[i]) => i = Len(hist)

C10_Witness ==
  /\ pkind = "image" /\ ptarget = "ready"
  /\ outcome = "success" /\ nrefresh = 3
  /\ \A i \in 1..2 : hist[i].found /\ hist[i].xml /\ hist[i].state # 1

\* ----- the classifications of C11 and C12, as the specification states them
C11Class(s) ==
  IF ~s.found THEN "notfound"
  ELSE IF s.state = 1 THEN "ready"
  ELSE IF s.state = 5 THEN "error"
  ELSE "pending"

C12Class(s) ==
  IF s.state = 3 /\ s.lcm = 3 THEN "running"
  ELSE IF s.state = 6 THEN "done"
  ELSE IF s.state = 3 /\ s.lcm = 36 THEN "error"
  ELSE "pending"

\* What the poller made of a Refresh result: its state string, "error" when
\* it came with an error, "pending" when the state string is in Pending.
ClassOf(r) ==
  IF r.err THEN "error"
  ELSE IF r.class \in Pending THEN "pending"
  ELSE r.class

\* C11: every refresh of an Image poll is classified by the lifecycle code
\* alone: code 1 is ready, code 5 is error, a failed info call is notfound
\* without an error, and every other code is pending.
C11_ImageClassification ==
  pkind = "image" =>
    \A i \in 1..Len(hist) :
      (hist[i].xml \/ ~hist[i].found) =>
        /\ ClassOf(seen[i]) = C11Class(hist[i])
        /\ (~hist[i].found) => (~seen[i].err /\ seen[i].class = "notfound")

C11_Witness ==
  /\ pkind = "image" /\ ptarget = "ready" /\ Len(hist) = 3
  /\ hist[1].xml /\ hist[1].state = 0
  /\ hist[2].xml /\ hist[2].state = 4
  /\ hist[3].xml /\ hist[3].state = 5
  /\ outcome = "error"

\* C12: every refresh of a VM poll whose info call answered is classified by
\* the pair (state, LCM state): (3,3) is running, state 6 with any LCM state
\* is done, (3,36) is error, every other pair is pending; the classes do not
\* overlap.
C12_VmClassification ==
  pkind = "vm" =>
    \A i \in 1..Len(hist) :
      (hist[i].found /\ hist[i].xml) =>
        /\ ClassOf(seen[i]) = C12Class(hist[i])
        /\ Cardinality({c \in {"running", "done", "error", "pending"} :
                          ClassOf(seen[i]) = c}) = 1

C12_Witness ==
  /\ pkind = "vm" /\ ptarget = "done" /\ Len(hist) = 2
  /\ hist[1].xml /\ hist[1].state = 6 - 1
  /\ hist[2].xml /\ hist[2].state = 6 /\ hist[2].lcm = 3
  /\ outcome = "success"

IsBootFailure(s) == s.found /\ s.xml /\ s.state = 3 /\ s.lcm = 36

\* C13 as claimed: a VM observed at (3,36) ends the poll with an error whose
\* message is the value of the ERROR key when the key is present, and the
\* generic message when the key is absent.
C13_ClaimedErrorMessage ==
  pkind = "vm" =>
    \A i \in 1..Len(hist) :
      IsBootFailure(hist[i]) =>
        /\ i = Len(hist) /\ pstate = "done" /\ outcome = "error"
        /\ Len(errmsg) = 2
        /\ errmsg[2] = (IF "ERROR" \in DOMAIN hist[i].utpl
                        THEN hist[i].utpl["ERROR"]
                        ELSE "No error was found")

\* C13 (amended): a VM observed at (3,36) ends the poll with a failure, the
\* state error or, when the Timeout elapsed while that refresh was in flight,
\* the timeout error that carries the state error as its last error; the
\* message of the state error is the value of the ERROR key when the key is
\* present and not empty, and the generic message when the key is absent or
\* empty.
C13_BootFailureMessage ==
  pkind = "vm" =>
    \A i \in 1..Len(hist) :
      IsBootFailure(hist[i]) =>
        /\ i = Len(hist) /\ pstate = "done"
        /\ \/ outcome = "error" /\ Len(errmsg) = 2
           \/ outcome = "timeout" /\ Len(errmsg) = 3
        /\ errmsg[Len(errmsg)] = (IF "ERROR" \in DOMAIN hist[i].utpl
                                      /\ hist[i].utpl["ERROR"] # ""
                                   THEN hist[i].utpl["ERROR"]
                                   ELSE "No error was found")

C13_Witness ==
  /\ pkind = "vm" /\ outcome = "error" /\ hist # <<>>
  /\ IsBootFailure(hist[Len(hist)])
  /\ hist[Len(hist)].utpl = [key \in {"ERROR"} |-> "boom"]
  /\ errmsg[2] = "boom"

\* C14: in a VM poll a failed info call is the last refresh: the poll ends
\* at once with a failure (the error of the Refresh or, when the Timeout
\* elapsed while the call was in flight, the timeout error that carries
\* it), whatever the target; the failed call is not classified as pending
\* and no refresh follows it.
C14_VmReadFailureIsFatal ==
  pkind = "vm" =>
    \A i \in 1..Len(hist) :
      (~hist[i].found) =>
        /\ i = Len(hist)
        /\ seen[i].err /\ seen[i].class \notin Pending
        /\ pstate = "done" /\ outcome \in {"error", "timeout"}
        /\ returned = "nil"
        /\ errmsg[Len(errmsg)] = "Could not find VM by ID %s"

C14_Witness ==
  /\ pkind = "vm" /\ ptarget = "done" /\ Len(hist) = 2
  /\ hist[1].found /\ hist[1].xml /\ hist[1].state = 3
  /\ ~hist[2].found
  /\ outcome = "error" /\ nrefresh = 2

\* ----- the remote calls of the lifecycle handlers
IsReadCall(c) ==
  \E k \in LifeKinds : c.method \in {InfoMethod(k), PoolMethod(k)}
IsHold(c) == c.method = "one.vn.hold"
IsRelease(c) == c.method = "one.vn.release"
IsDeleteCall(c) == \E k \in Kinds : c.method = DeleteMethod(k)
IsDestroyCall(c) == IsDeleteCall(c) \/ IsRelease(c)

Holds == SelectSeq(lcalls, IsHold)
Releases == SelectSeq(lcalls, IsRelease)

\* The addresses of a lease walk of n leases from s, as the specification
\* states them: the i-th (from 0) is s with its last octet increased by i,
\* modulo 256.
LeaseWalk(s, n) ==
  [i \in 1..n |-> [s EXCEPT ![4] = (s[4] + (i - 1)) % 256]]

ValidStart == Len(cfg.ip_start) = 4 /\ \A i \in 1..4 : cfg.ip_start[i] \in 0..255

\* C15: a remote call that fails is the last call of its handler run, and
\* the run returns an error; in a poll, a failed info call ends the poll
\* with an error.  The handlers are those of the kinds and data sources
\* whose code is in the sources.
C15_FailuresSurface ==
  /\ lkind \in LifeKinds =>
       \A i \in 1..Len(lcalls) :
         lcalls[i].res = "fail" =>
           (i = Len(lcalls) /\ lpc = "idle" /\ lresult = "err")
  /\ \A i \in 1..Len(hist) :
       (~hist[i].found) => (pstate = "done" /\ outcome = "error")

\* C16: a delete that issued its delete call and returned success has
\* polled after it, and the last refresh of the poll saw the resource gone
\* (not found, or state 6 for a VM).
C16_DeleteWaitsForAbsence ==
  (/\ lop = "delete" /\ lpc = "idle" /\ lresult = "ok"
   /\ \E i \in 1..Len(lcalls) : IsDeleteCall(lcalls[i]))
    => /\ outcome = "success" /\ hist # <<>>
       /\ pkind = (IF lkind = "vm" THEN "vm" ELSE "image")
       /\ LET last == hist[Len(hist)] IN
            IF lkind = "vm" THEN last.found /\ last.state = 6
            ELSE ~last.found

\* C17: a delete (of an Image, a VM, a VirtualNetwork or a SecurityGroup)
\* begins with a read of the resource: every release, delete
\* or terminate call comes after a successful read call; and when the read
\* found the resource neither by ID nor by name (the ID is then empty) the
\* delete returns success and has issued none of these calls.
C17_DeleteReadsFirst ==
  (lop = "delete" /\ lkind \in Kinds) =>
    /\ lcalls # <<>> => IsReadCall(lcalls[1])
    /\ \A i \in 1..Len(lcalls) :
         IsDestroyCall(lcalls[i]) =>
           \E j \in 1..(i - 1) : IsReadCall(lcalls[j]) /\ lcalls[j].res = "ok"
    /\ (\E j \in 1..Len(lcalls) : lcalls[j].res = "nomatch") =>
         /\ \A i \in 1..Len(lcalls) : ~IsDestroyCall(lcalls[i])
         /\ lpc = "idle" /\ lresult = "ok" /\ lid = 0

C17_Witness ==
  /\ lop = "delete" /\ lkind = "vnet" /\ cfg.hold_size > 0
  /\ lpc = "idle" /\ lresult = "ok" /\ lid = 0
  /\ Len(lcalls) = 2 /\ lcalls[1].res = "fail" /\ lcalls[2].res = "nomatch"

\* C18: a successful delete of a VirtualNetwork with ip_start S and
\* hold_size N > 0 has issued exactly N release calls, for the addresses of
\* the lease walk from S, in the order of the walk.
C18_ReleaseWalk ==
  (/\ lop = "delete" /\ lkind = "vnet" /\ lpc = "idle" /\ lresult = "ok"
   /\ cfg.hold_size > 0 /\ ValidStart
   /\ \E i \in 1..Len(lcalls) : IsDeleteCall(lcalls[i]))
    => /\ Len(Releases) = cfg.hold_size
       /\ \A i \in 1..Len(Releases) :
            Releases[i].ip = LeaseWalk(cfg.ip_start, cfg.hold_size)[i]

\* C19: in a fresh-allocation create with ip_start S and hold_size N > 0 the
\* hold calls are issued one after the other for the addresses of the lease
\* walk from S, in increasing order; a failed hold call is the last call and
\* the create returns its error; a create that got past the walk has issued
\* exactly N hold calls.
C19_HoldWalk ==
  (/\ lop = "create" /\ cfg.reservation_vnet = 0
   /\ cfg.hold_size > 0 /\ ValidStart)
    => /\ Len(Holds) <= cfg.hold_size
       /\ \A i \in 1..Len(Holds) :
            Holds[i].ip = LeaseWalk(cfg.ip_start, cfg.hold_size)[i]
       /\ \A i, j \in 1..Len(lcalls) :
            (i < j /\ IsHold(lcalls[i]) /\ IsHold(lcalls[j])) =>
              \A m \in i..j : IsHold(lcalls[m])
       /\ \A i \in 1..Len(lcalls) :
            (IsHold(lcalls[i]) /\ lcalls[i].res = "fail") =>
              (i = Len(lcalls) /\ lpc = "idle" /\ lresult = "err")
       /\ (lresult = "ok" \/ lpc \in {"c_secgroups", "read_info", "read_pool"})
            => (/\ Len(Holds) = cfg.hold_size
                /\ \A i \in 1..Len(Holds) : Holds[i].res = "ok")

C19_Witness ==
  /\ lop = "create" /\ lpc = "idle" /\ lresult = "ok"
  /\ cfg.ip_start = <<10, 0, 0, 5>> /\ cfg.hold_size = 3
  /\ Len(Holds) = 3
  /\ Holds[1].ip = <<10, 0, 0, 5>> /\ Holds[2].ip = <<10, 0, 0, 6>>
  /\ Holds[3].ip = <<10, 0, 0, 7>>

\* C20: every address of a lease walk has the three high octets of ip_start
\* and a last octet in 0..255, the k-th being the start octet plus k modulo
\* 256; the walk itself never fails: a create or delete with a valid
\* ip_start does not panic, and returns an error only for a failed call or
\* from the read that found the network (SECURITY_GROUPS did not convert).
C20_LastOctetWraps ==
  ValidStart =>
    /\ \A i \in 1..Len(lcalls) :
         (IsHold(lcalls[i]) \/ IsRelease(lcalls[i])) =>
           /\ Len(lcalls[i].ip) = 4
           /\ \A o \in 1..3 : lcalls[i].ip[o] = cfg.ip_start[o]
           /\ lcalls[i].ip[4] \in 0..255
    /\ \A k \in 1..Len(Holds) :
         Holds[k].ip[4] = (cfg.ip_start[4] + (k - 1)) % 256
    /\ \A k \in 1..Len(Releases) :
         Releases[k].ip[4] = (cfg.ip_start[4] + (k - 1)) % 256
    /\ lresult # "panic"
    /\ (lresult = "err" /\ lcalls # <<>> /\ lpc = "idle" /\ pstate = "idle") =>
         \/ lcalls[Len(lcalls)].res \in {"fail", "bad"}
         \/ /\ IsReadCall(lcalls[Len(lcalls)])
            /\ lcalls[Len(lcalls)].res = "ok"
            /\ "security_groups" \notin lsets

C20_Witness ==
  /\ lop = "create" /\ lpc = "idle" /\ lresult = "ok"
  /\ cfg.ip_start = <<10, 0, 255, 254>> /\ cfg.hold_size = 3
  /\ Len(Holds) = 3
  /\ Holds[2].ip = <<10, 0, 255, 255>> /\ Holds[3].ip = <<10, 0, 255, 0>>

\* ----- the remote calls of the create handlers
IsReserve(c) == c.method = "one.vn.reserve"
IsAllocate(c) == c.method = "one.vn.allocate"
IsAddAr(c) == c.method = "one.vn.add_ar"
IsClone(c) == c.method = "one.image.clone"
IsCreateCall(c) ==
  c.method \in {"one.image.allocate", "one.image.clone",
                "one.template.instantiate", "one.vm.allocate"}
IsNameLookup(c) == \E k \in LifeKinds : c.method = PoolMethod(k)

Reserves == SelectSeq(lcalls, IsReserve)
Allocates == SelectSeq(lcalls, IsAllocate)
AddArs == SelectSeq(lcalls, IsAddAr)

\* C21: a VirtualNetwork create whose configuration asks for a reservation
\* (reservation_vnet or reservation_size is given) with reservation_vnet <= 0
\* or reservation_size <= 0 issues no remote call and returns an error.
C21_ReservationValidated ==
  (/\ lkind = "vnet" /\ lop = "create"
   /\ (cfg.reservation_vnet # 0 \/ cfg.reservation_size # 0)
   /\ (cfg.reservation_vnet <= 0 \/ cfg.reservation_size <= 0))
    => /\ lcalls = <<>>
       /\ lpc = "idle" /\ lresult = "err"

\* C22: a VirtualNetwork create issues at most one reserve call and at most
\* one allocate call, never both; after a reserve call it issues no add_ar
\* and no hold call; and in reservation mode the ID stored, and passed to the
\* calls that follow (the lookup by name has no ID argument), is the ID the
\* reserve call returned, which is not the ID of the source network.
C22_ModesDisjoint ==
  (lkind = "vnet" /\ lop = "create") =>
    /\ Len(Reserves) <= 1 /\ Len(Allocates) <= 1
    /\ Reserves = <<>> \/ Allocates = <<>>
    /\ Reserves # <<>> => (AddArs = <<>> /\ Holds = <<>>)
    /\ \A i \in 1..Len(lcalls) :
         (IsReserve(lcalls[i]) /\ lcalls[i].res = "ok") =>
           /\ lcalls[i].id = cfg.reservation_vnet
           /\ lcalls[i].got # cfg.reservation_vnet
           /\ \A j \in (i + 1)..Len(lcalls) :
                ~IsNameLookup(lcalls[j]) => lcalls[j].id = lcalls[i].got
           /\ lid = lcalls[i].got

\* C23: a fresh-allocation create issues allocate first; no add_ar and no
\* hold call comes before a successful allocate; when ip_start is given it
\* issues exactly one add_ar, of type IP4, with ip_start and with ip_size (1
\* when ip_size is not given), and the hold calls come after it; without
\* ip_start it issues no add_ar.
C23_FreshAllocationOrder ==
  (lkind = "vnet" /\ lop = "create" /\ cfg.reservation_vnet = 0) =>
    /\ lcalls # <<>> => IsAllocate(lcalls[1])
    /\ \A i \in 1..Len(lcalls) :
         (IsAddAr(lcalls[i]) \/ IsHold(lcalls[i])) =>
           (i > 1 /\ lcalls[1].res = "ok")
    /\ Len(AddArs) <= 1
    /\ cfg.ip_start = <<>> => AddArs = <<>>
    /\ \A i \in 1..Len(lcalls) :
         IsAddAr(lcalls[i]) =>
           /\ lcalls[i].tmpl[1] = "TYPE = IP4"
           /\ lcalls[i].ip = cfg.ip_start
           /\ lcalls[i].size = (IF cfg.ip_size # 0 THEN cfg.ip_size ELSE 1)
    /\ \A i \in 1..Len(lcalls) :
         (IsHold(lcalls[i]) /\ cfg.ip_start # <<>>) =>
           \E j \in 1..(i - 1) : IsAddAr(lcalls[j]) /\ lcalls[j].res = "ok"
    /\ (cfg.ip_start # <<>> /\ lpc = "idle" /\ lresult = "ok")
         => Len(AddArs) = 1

C23_Witness ==
  /\ lkind = "vnet" /\ lop = "create" /\ lpc = "idle" /\ lresult = "ok"
  /\ cfg.ip_start = <<10, 0, 0, 5>> /\ cfg.ip_size = 0 /\ cfg.hold_size = 2
  /\ cfg.permissions = 0
  /\ Len(lcalls) = 5
  /\ IsAllocate(lcalls[1]) /\ IsAddAr(lcalls[2]) /\ lcalls[2].size = 1
  /\ IsHold(lcalls[3]) /\ IsHold(lcalls[4])

\* C24: in the create of an Image or a VM the poll starts only after the
\* allocate, clone or instantiate call has succeeded and its ID is stored;
\* a chmod call is issued only after the poll has ended with the target
\* reached, for the stored ID; when the poll has failed no chmod is issued.
C24_CreateOrder ==
  (lkind \in NewKinds /\ lop = "create") =>
    /\ pstate # "idle" =>
         /\ pkind = lkind
         /\ ptarget = (IF lkind = "image" THEN "ready" ELSE "running")
         /\ lcalls # <<>>
         /\ \E j \in 1..Len(lcalls) :
              /\ IsCreateCall(lcalls[j]) /\ lcalls[j].res = "ok"
              /\ \A m \in 1..Len(lcalls) : IsCreateCall(lcalls[m]) => m = j
              /\ lpc \in {"c_wait", "c_chmod", "c_persistent"}
                   => lid = lcalls[j].got
    /\ pstate = "polling" => \A i \in 1..Len(lcalls) : ~IsChmod(lcalls[i])
    /\ \A i \in 1..Len(lcalls) :
         IsChmod(lcalls[i]) =>
           /\ pstate = "done" /\ outcome = "success"
           /\ \E j \in 1..(i - 1) :
                IsCreateCall(lcalls[j]) /\ lcalls[i].id = lcalls[j].got
    /\ (pstate = "done" /\ outcome # "success") =>
         \A i \in 1..Len(lcalls) : ~IsChmod(lcalls[i])

C24_Witness ==
  /\ lkind = "image" /\ lop = "create" /\ lpc = "idle" /\ lresult = "ok"
  /\ cfg.permissions # 0 /\ cfg.clone_from_image = <<"1", "2">>
  /\ nrefresh = 2 /\ outcome = "success"
  /\ Len(lcalls) = 4
  /\ IsClone(lcalls[1]) /\ lcalls[1].id = 12 /\ IsChmod(lcalls[2])
  /\ lcalls[3].method = "one.image.persistent"

\* C25: a create of any kind and mode that has returned success with
\* permissions declared has issued a successful chmod call.
C25_CreateAppliesPermissions ==
  (/\ lop = "create" /\ lpc = "idle" /\ lresult = "ok"
   /\ cfg.permissions # 0)
    => \E i \in 1..Len(lcalls) : IsChmod(lcalls[i]) /\ lcalls[i].res = "ok"

\* C26: when the poll of an Image or VM create ends without the target
\* (timeout, error or unexpected state), the create returns an error and
\* the ID is still the one the allocate, clone or instantiate call returned.
C26_FailedWaitKeepsId ==
  (/\ lkind \in NewKinds /\ lop = "create" /\ lpc = "idle"
   /\ pstate = "done" /\ outcome # "success")
    => /\ lresult = "err"
       /\ lid # 0
       /\ \E j \in 1..Len(lcalls) :
            /\ IsCreateCall(lcalls[j]) /\ lcalls[j].res = "ok"
            /\ lid = lcalls[j].got

C26_Witness ==
  /\ lkind = "vm" /\ lop = "create" /\ lpc = "idle" /\ lresult = "err"
  /\ cfg.template_id # 0
  /\ pstate = "done" /\ outcome = "timeout" /\ nrefresh = 1
  /\ Len(lcalls) = 1 /\ lcalls[1].method = "one.template.instantiate"
  /\ lid = 1

\* The positions of the pool entries that carry the name.
MatchesOf(pool, name) == {i \in 1..Len(pool) : pool[i].name = name}

\* C27: the lookup of a name in a pool gives the ID of the entry at the
\* lowest position among those that carry exactly this name, whatever
\* follows it, and NotFound when no entry carries the name.
C27_FirstMatchWins ==
  (fn = "resolve" /\ fres # <<>>) =>
    LET M == MatchesOf(farg.pool, farg.ref) IN
      IF M = {} THEN ~fres[1].found
      ELSE /\ fres[1].found
           /\ \E i \in M : /\ \A j \in M : i <= j
                           /\ fres[1].id = farg.pool[i].id

C27_Witness ==
  /\ fn = "resolve" /\ farg.ref = <<"a">> /\ Len(farg.pool) = 3
  /\ farg.pool[1] = [id |-> 2, name |-> <<"a">>]
  /\ farg.pool[2] = [id |-> 1, name |-> <<"b">>]
  /\ farg.pool[3] = [id |-> 1, name |-> <<"a">>]
  /\ fres = <<[found |-> TRUE, id |-> 2]>>

\* A read found the resource neither by ID nor by name: its last call is the
\* lookup by name and no entry of the pool matched.
ReadFoundNothing ==
  /\ lkind \in LifeKinds
  /\ lcalls # <<>>
  /\ lcalls[Len(lcalls)].method = PoolMethod(lkind)
  /\ lcalls[Len(lcalls)].id = PoolFilter(lkind)
  /\ lcalls[Len(lcalls)].res = "nomatch"

\* C28: for every kind (Image, VM, VirtualNetwork, SecurityGroup, User,
\* Group), a read that found the resource neither by ID nor by name leaves
\* the ID empty, has written no attribute and returns success.
C28_ReadNotFoundClearsId ==
  ReadFoundNothing =>
    /\ lid = 0
    /\ lsets = {}
    /\ lpc = "idle" /\ lresult = "ok"

C28_Witness ==
  /\ lkind = "image" /\ lop = "read" /\ lpc = "idle" /\ lresult = "ok"
  /\ Len(lcalls) = 2
  /\ lcalls[1].method = "one.image.info" /\ lcalls[1].res = "fail"
  /\ lcalls[2].res = "nomatch"
  /\ lid = 0 /\ lsets = {}

\* The clone references that are decimal integers, with their values.
C29IntRefs == {<<"7">>, <<"1", "2">>, <<"-", "3">>}

C29IntOf(r) ==
  CASE r = <<"7">> -> 7 [] r = <<"1", "2">> -> 12 [] r = <<"-", "3">> -> 0 - 3

IsCloneLookup(c) == c.method = "one.imagepool.info" /\ c.id = 0 - 3

\* C29: an Image create with clone_from_image clones from a source it has
\* resolved first: an integer reference is the source ID and there is no
\* lookup by name; any other reference is looked up in the pool before the
\* clone call, which gets the ID found; when the lookup finds no entry the
\* create returns an error, has issued no clone call and has no ID.
C29_CloneResolvesSource ==
  (lkind = "image" /\ lop = "create" /\ cfg.clone_from_image # <<>>) =>
    /\ cfg.clone_from_image \in C29IntRefs =>
         /\ \A i \in 1..Len(lcalls) : ~IsCloneLookup(lcalls[i])
         /\ lcalls # <<>> =>
              /\ IsClone(lcalls[1])
              /\ lcalls[1].id = C29IntOf(cfg.clone_from_image)
    /\ cfg.clone_from_image \notin C29IntRefs =>
         /\ lcalls # <<>> => IsCloneLookup(lcalls[1])
         /\ \A i \in 1..Len(lcalls) :
              IsClone(lcalls[i]) =>
                /\ i = 2 /\ lcalls[1].res = "ok"
                /\ lcalls[i].id = lcalls[1].got
         /\ (lcalls # <<>> /\ lcalls[1].res = "nomatch") =>
              /\ Len(lcalls) = 1
              /\ lpc = "idle" /\ lresult = "err" /\ lid = 0
    /\ \A i \in 1..Len(lcalls) :
         lcalls[i].method = "one.image.allocate" => FALSE

C29_Witness ==
  /\ lkind = "image" /\ lop = "create" /\ lpc = "idle" /\ lresult = "err"
  /\ cfg.clone_from_image = <<"a">>
  /\ Len(lcalls) = 1 /\ IsCloneLookup(lcalls[1])
  /\ lcalls[1].res = "nomatch" /\ lid = 0

OctalChars == {"0", "1", "2", "3", "4", "5", "6", "7"}

\* C30: the permission validator of every kind returns no error for a
\* string if and only if the string has exactly 3 characters, each of them
\* in '0'..'7'; for every other string, the empty one included, it returns
\* at least one error.
C30_ValidatorAcceptsOctalTriples ==
  (fn = "validate" /\ fres # <<>>) =>
    (fres[1] = <<>>
       <=> /\ Len(farg.value) = 3
           /\ \A i \in 1..Len(farg.value) : farg.value[i] \in OctalChars)

C30_Witness ==
  /\ fn = "validate" /\ farg.kind = "secgroup"
  /\ farg.value = <<"7", "8", "0">>
  /\ Len(fres) = 1 /\ Len(fres[1]) = 1

IsCommit(c) == c.method = "one.secgroup.commit"
IsRuleUpdate(c) == c.method = "one.secgroup.update" /\ c.mode = 0

\* C34: in a SecurityGroup update a commit call comes right after the rule
\* update (mode 0) of the same run, which succeeded, and only when the rules
\* changed and the commit flag is true; there is no commit call when the
\* rules did not change, when the flag is false or when the rule update
\* failed.
C34_CommitFollowsRuleUpdate ==
  kind = "secgroup" =>
    /\ \A i \in 1..Len(calls) :
         IsCommit(calls[i]) =>
           /\ i > 1 /\ IsRuleUpdate(calls[i - 1]) /\ calls[i - 1].ok
           /\ desired["commit"] = 1
           /\ old["rule"] # desired["rule"]
    /\ (\/ old["rule"] = desired["rule"]
        \/ desired["commit"] # 1
        \/ \E j \in 1..Len(calls) : IsRuleUpdate(calls[j]) /\ ~calls[j].ok)
         => \A i \in 1..Len(calls) : ~IsCommit(calls[i])

C34_Witness ==
  /\ kind = "secgroup" /\ result = "ok" /\ desired["commit"] = 1
  /\ Len(calls) = 3
  /\ IsChmod(calls[1]) /\ IsRuleUpdate(calls[2]) /\ IsCommit(calls[3])

\* C38: every address-range call of a VirtualNetwork update has the method
\* add_ar (ip_start changed from empty) or update_ar (ip_start unchanged),
\* and no call of the update has an empty method name.
C38_ArMethodNamed ==
  kind = "vnet" =>
    /\ \A i \in 1..Len(calls) : calls[i].method # ""
    /\ \A i \in 1..Len(calls) :
         IsArCall(calls[i]) =>
           \/ /\ calls[i].method = "one.vn.add_ar"
              /\ old["ip_start"] = 0 /\ desired["ip_start"] # 0
           \/ /\ calls[i].method = "one.vn.update_ar"
              /\ old["ip_start"] = desired["ip_start"]

\* A handler run that began with a non-empty ID begins with the info call
\* for that ID.
StartedWithId ==
  /\ lkind \in LifeKinds
  /\ lcalls # <<>> /\ lcalls[1].method = InfoMethod(lkind) /\ lcalls[1].id # 0

\* C36: every delete, terminate or release call of a delete has the ID the
\* record held when the delete was invoked.
C36_DeleteOnlyOwnId ==
  (lop = "delete" /\ StartedWithId) =>
    \A i \in 1..Len(lcalls) :
      IsDestroyCall(lcalls[i]) => lcalls[i].id = lcalls[1].id

\* C37: a read that began with a non-empty ID has, when it returns, the same
\* ID or the empty ID.
C37_ReadNeverRebinds ==
  (lop = "read" /\ lpc = "idle" /\ StartedWithId) =>
    lid \in {lcalls[1].id, 0}

\* A VirtualNetwork create whose vn_mad is "802.1q" and that lacks phydev or
\* vlan_id.
Dot1qIncomplete ==
  /\ lkind = "vnet" /\ lop = "create"
  /\ cfg.vn_mad = "802.1q" /\ (cfg.phydev = 0 \/ cfg.vlan_id = 0)

\* C32: a VirtualNetwork create with vn_mad "802.1q" that lacks phydev or
\* vlan_id issues no remote call, fails, and leaves the ID empty.
C32_Dot1qFailsBeforeCall ==
  Dot1qIncomplete =>
    /\ lcalls = <<>>
    /\ lid = 0
    /\ lpc = "idle" => lresult = "err"

\* C32, amended: the same for a create that does not reserve from another
\* network (reservation_vnet unset).  A create with reservation_vnet set
\* does not look at vn_mad: with reservation_vnet <= 0 or reservation_size
\* <= 0 it fails before any call, and otherwise its first call is
\* one.vn.reserve.
C32_Dot1qFailsBeforeCallNoReservation ==
  /\ (Dot1qIncomplete /\ cfg.reservation_vnet = 0) =>
       /\ lcalls = <<>>
       /\ lid = 0
       /\ lpc = "idle" /\ lresult = "err"
  /\ (/\ Dot1qIncomplete /\ cfg.reservation_vnet # 0
      /\ (cfg.reservation_vnet <= 0 \/ cfg.reservation_size <= 0)) =>
       /\ lcalls = <<>>
       /\ lid = 0
       /\ lpc = "idle" /\ lresult = "err"
  /\ (Dot1qIncomplete /\ cfg.reservation_vnet > 0 /\ cfg.reservation_size > 0) =>
       \/ lpc = "c_reserve" /\ lcalls = <<>>
       \/ lcalls # <<>> /\ IsReserve(lcalls[1])

C32_Witness ==
  /\ Dot1qIncomplete /\ cfg.reservation_vnet = 0
  /\ cfg.phydev = 1 /\ cfg.vlan_id = 0
  /\ lpc = "idle" /\ lresult = "err" /\ lcalls = <<>> /\ lid = 0

\* C31: a chmod with a valid 3-digit octal string s sends the use, manage and
\* admin flags of owner, group and other as the three bits of each digit,
\* and the read that follows sets "permissions" to a 3-digit string equal
\* to s.
C31_PermissionRoundTrip ==
  (fn = "codec" /\ fres # <<>>) =>
    /\ Len(fres[1].permissions) = 3
    /\ fres[1].permissions = farg.value
    /\ \A i \in 1..3 :
         LET b == fres[1].sent[Subjects[i]] IN
           /\ {b.u, b.m, b.a} \subseteq {0, 1}
           /\ 4 * b.u + 2 * b.m + b.a = DigitVal(farg.value[i])

C31_Witness ==
  /\ fn = "codec" /\ fres # <<>>
  /\ farg.value = <<"6", "4", "1">>
  /\ fres[1].sent.owner = [u |-> 1, m |-> 1, a |-> 0]
  /\ fres[1].sent.other = [u |-> 0, m |-> 0, a |-> 1]
  /\ fres[1].permissions = <<"6", "4", "1">>

\* C40: the customize-diff step on a plan whose lcmstate is 36 leaves a plan
\* that replaces the VM, without an error; on a plan with any other lcmstate
\* it leaves the plan as it found it.
C40_BootFailureForcesNew ==
  (fn = "customize" /\ fres # <<>>) =>
    /\ ~fres[1].err
    /\ IF farg.diff.old = LcmBootFailure
       THEN fres[1].diff.requiresNew
       ELSE fres[1].diff = farg.diff

C40_Witness ==
  /\ fn = "customize" /\ fres # <<>>
  /\ farg.diff.old = LcmBootFailure /\ ~farg.diff.requiresNew
  /\ fres[1].diff.requiresNew /\ fres[1].diff.new = LcmRunning

Elements(t) == {t[i] : i \in 1..Len(t)}

FieldSet(c, f) == IF f = "vn_mad" THEN c[f] # "" ELSE c[f] # 0

\* The template has the element of an optional attribute exactly when the
\* attribute is set.
EmitsIffSet(k, fields) ==
  (fn = "template" /\ fres # <<>> /\ farg.kind = k) =>
    \A f \in fields :
      (TemplateKey(f) \in Elements(fres[1])) <=> FieldSet(farg.c, f)

\* C33: the template of an allocate call has the line or element of an
\* optional attribute if and only if the attribute is set: the
\* VirtualNetwork template has NAME always and DESCRIPTION, BRIDGE, VN_MAD,
\* NETWORK_MASK, GATEWAY, DNS only when set, and the Image and VM templates
\* have no element for an optional attribute or sub-entity that is not set.
C33_TemplateEmitsIffSet ==
  /\ (fn = "template" /\ fres # <<>> /\ farg.kind = "vnet")
       => "NAME" \in Elements(fres[1])
  /\ \A k \in {"vnet", "image", "vm"} : EmitsIffSet(k, TemplateOptional(k))

\* A process that allocates: the ID its resource gets is the remote's to
\* give.
WAllocates(p) == procs[p].op = "create" \/ Creates(procs[p]) > 0

\* C35: of two processes that reconcile resources with distinct IDs and
\* distinct names (at most one of them allocates a resource), in every
\* interleaving of their remote calls each has issued the calls, with the
\* answers, and has the record that it has when it runs alone.
C35_SameAsAlone ==
  (world # <<>> /\ ~(WAllocates(1) /\ WAllocates(2))) =>
    \A p \in Procs : procs[p] = solo[p]

\* Process 1 has read its resource by name, its ID being gone, after
\* process 2 deleted its own resource and before process 2's delete returned.
C35_Witness ==
  /\ world # <<>>
  /\ procs[1].op = "read" /\ procs[1].pc = "idle"
  /\ Len(procs[1].calls) = 2 /\ procs[1].calls[1].res = "fail"
  /\ procs[1].calls[2].res = "nomatch" /\ procs[1].id = 0
  /\ procs[2].op = "delete" /\ procs[2].pc = "d_wait"
  /\ world[2].st = "gone" /\ alone[1][2].st = "live"
  /\ procs[1] = solo[1]

\* Process p has created a resource, deleted it with success, and Exists
\* has returned; the other process has created nothing.
CreatedDeletedAsked(p) ==
  LET l == procs[p].log IN
    /\ world # <<>>
    /\ Len(l) >= 3 /\ procs[p].pc = "idle"
    /\ l[Len(l) - 2].op = "create" /\ l[Len(l) - 2].result = "ok"
    /\ l[Len(l) - 1].op = "delete" /\ l[Len(l) - 1].result = "ok"
    /\ l[Len(l) - 1].id = l[Len(l) - 2].id
    /\ l[Len(l)].op = "exists"
    /\ \A q \in Procs \ {p} : ~WAllocates(q)

\* C39: after a create and a successful delete of the resource created, with
\* no other process creating resources, Exists returns false without error:
\* for a VM the state read is 6 or the ID is empty, for the other kinds the
\* read has left the ID empty.
C39_ExistsFalseAfterDelete ==
  \A p \in Procs :
    CreatedDeletedAsked(p) =>
      /\ procs[p].result = "ok" /\ ~procs[p].exists
      /\ IF wkind = "vm"
         THEN procs[p].state = VmStateDone \/ procs[p].id = 0
         ELSE procs[p].id = 0

\* Exists on the record saved before the delete of a VM: the read by ID
\* answers with state 6.
C39_Witness ==
  /\ CreatedDeletedAsked(1) /\ wkind = "vm"
  /\ procs[1].id = procs[1].log[Len(procs[1].log) - 1].id /\ procs[1].id # 0
  /\ procs[1].state = VmStateDone /\ ~procs[1].exists
  /\ world[2].st = "live"

====
